---- MODULE Spec2Model ----
(***************************************************************************)
(* MCP-Nexus: the process supervisor (MCPServerInstance, MCPServerManager)  *)
(* and the distributed workflow engine (MCPClientInstance,                  *)
(* MCPClientManager) of src/shared/schema.ts.                               *)
(*                                                                          *)
(* Spec    one managed server instance: callers, timers and the child       *)
(*         processes' exit events interleave.                               *)
(* WfSpec  the client registry and the workflow executions running on it.   *)
(***************************************************************************)
EXTENDS Integers, Sequences, FiniteSets, TLC

(***************************************************************************)
(* Bounds of the model.                                                     *)
(***************************************************************************)
\* lifecycle requests (start, stop, restart, removeServer) the callers make
MaxCalls == 3
\* largest configured maxRestarts
MaxCfgRestarts == 1
\* requests the callers make of the client manager (addClient, removeClient,
\* invokeToolOnClient, executeWorkflow, executeDistributedWorkflow)
MaxRuns == 3
\* the same, when the workflow they submit is a three-step data workflow
MaxFlowRuns == 2
\* the largest maxRestarts of the instance whose command always fails
MaxLiveRestarts == 7
\* ticks of the health-check timers
MaxTicks == 2

(***************************************************************************)
(* Program constants (milliseconds).                                        *)
(***************************************************************************)
GRACE_MS == 5000
RESTART_DELAY_MS == 2000
AUTO_RESTART_DELAY_MS == 5000
DEFAULT_MAX_RESTARTS == 3

VARIABLES
    \* MCPServerConfig, as MCPServerManager.createServer builds it
    config,
    \* the InsertServer that createServer was given: its maxRestarts
    insertServer,
    \* MCPServerManager.servers holds the instance
    registered,
    \* MCPServerInstance fields; process is the pid of the handle, 0 for none
    status, restartCount, process, uptime,
    \* the level and kind of the last entry of this.logs
    lastLog,
    \* the ChildProcess handles that still matter, by pid: the live ones and
    \* the one this.process holds
    procs,
    \* pending setTimeout continuations, in creation order
    tasks,
    \* events emitted by the instance during the last step
    emitted,
    \* kill() calls made during the last step
    signals,
    \* how the API call made or completed in the last step ended
    ret,
    \* lifecycle requests made so far
    calls,
    \* history: abnormal exits observed so far (ExitsCap: that many or more)
    abnExits,
    \* history: the caller's last lifecycle request stopped a running instance
    manualStop,
    \* history: stop() or removeServer() was called while the exit handler's
    \* timer was pending (and no restart it started earlier was under way), and
    \* since then no caller asked for a start or a restart and no exit set a
    \* new timer
    voided,
    \* history: an exit with a nonzero code was observed with autoRestart on
    \* and restartCount = maxRestarts
    exhausted

VARIABLES
    \* MCPClientManager.clients, in insertion order: [id, connected, tools,
    \* phase (of connect()), timer (healthCheckTimer runs), lastHealthCheck
    \* (0 for undefined)]
    clients,
    \* the workflow the callers submit (each submission passes a fresh copy)
    wf,
    \* the last reading of Date.now()
    now,
    \* the WorkflowExecution objects ever created
    execs,
    \* MCPClientManager.workflowExecutions: id -> the object it holds
    wfMap,
    \* the calls awaiting a peer's response, each with its local variables
    threads,
    \* POST /mcp/tools/invoke requests issued during the last step
    sent,
    \* events the manager emitted during the last step
    mgrEvents,
    \* how the manager call made or completed in the last step ended
    wfRet,
    \* manager calls made so far
    runs,
    \* the MCPToolResult objects invokeTool returned during the last step
    toolResults,
    \* health probes in flight: the client whose timer started each, and
    \* whether that client has left the registry since
    probes,
    \* healthCheck events the clients emitted during the last step
    hcEvents,
    \* ticks of the health-check timers so far
    ticks

wfVars == <<clients, wf, now, execs, wfMap, threads, sent, mgrEvents, wfRet, runs,
            toolResults, probes, hcEvents, ticks>>

supVars == <<config, insertServer, registered, status, restartCount, process, uptime, lastLog,
             procs, tasks, emitted, signals, ret, calls, abnExits, manualStop,
             voided, exhausted>>

(***************************************************************************)
(* The REST layer over MemStorage (server/routes.ts, server/storage.ts).   *)
(***************************************************************************)
VARIABLES
    \* MemStorage.edgeDevices: the stored devices by id
    edgeDevices,
    \* MemStorage.servers: the stored server records
    servers,
    \* the uuids randomUUID() has handed out so far
    uuids,
    \* the response of the request handled in the last step
    httpRes,
    \* history: the devices whose DELETE was answered with success
    deletedOk,
    \* MCPServerManager.servers of the storage's manager: the ids it holds
    managed

devVars == <<edgeDevices, servers, uuids, httpRes, deletedOk, managed>>

\* the most server records the storage is followed through
MaxServers == 4

\* the devices initializeDevices() stores; requests name one of them
DeviceIds == {"edge-device-001", "edge-device-002", "edge-device-003"}

\* an EdgeDevice: its status, and blocked (absent in a new record, which
\* reads as false)
EdgeDevice(st, blocked) == [status |-> st, blocked |-> blocked]

\* the devices as initializeDevices() stores them
DemoDevices ==
    [d \in DeviceIds |-> EdgeDevice(IF d = "edge-device-002" THEN "offline"
                                    ELSE "online", FALSE)]

\* Map.set(id, device)
createEdgeDevice(E, id, st) ==
    [d \in DOMAIN E \cup {id} |-> IF d = id THEN EdgeDevice(st, FALSE) ELSE E[d]]

\* the stored device with the updates spread over it; nothing for an id that
\* is not stored
updateEdgeDevice(E, id, updates) ==
    IF id \in DOMAIN E THEN [E EXCEPT ![id] = updates @@ @] ELSE E

\* Map.delete(id)
deleteEdgeDevice(E, id) == [d \in DOMAIN E \ {id} |-> E[d]]

Server(id, deviceId, st) == [id |-> id, deviceId |-> deviceId, status |-> st]

\* the demo servers initializeDevices() stores under fresh uuids
DemoServers == {Server(1, "edge-device-001", "running"),
                Server(2, "edge-device-001", "stopped"),
                Server(3, "edge-device-003", "running")}

HttpRes(op, code, arg) == [op |-> op, code |-> code, arg |-> arg]

\* MemStorage after its constructor, no request handled yet
DevIdle ==
    /\ edgeDevices = DemoDevices
    /\ servers = DemoServers
    /\ uuids = Cardinality(DemoServers)
    /\ httpRes = HttpRes("none", 0, "none")
    /\ deletedOk = {}
    /\ managed = {}

\* a uuid as the manager sees it, a string key; no device is called "uuid"
Uuid(n) == <<"uuid", n>>

\* the name of a server with the millisecond of its creation, as far as two
\* requests can differ in them
NameStamps == {1, 2}

\* `${config.deviceId}-${config.name}-${Date.now()}`
ServerId(deviceId, stamp) == <<deviceId, stamp>>

\* MCPServerManager.createServer: throws on an id it holds, and the storage
\* catches that
managerCreateServer(M, deviceId, stamp) == M \cup {ServerId(deviceId, stamp)}

\* MCPServerManager.removeServer as MemStorage.deleteServer calls it: throws
\* on an id it does not hold, and the storage catches that
managerRemoveServer(M, id) == M \ {id}

getServer(S, id) == {s \in S : s.id = id}

getServersByDevice(S, deviceId) == {s \in S : s.deviceId = deviceId}

\* the record is stored before the manager is asked; the manager's failure
\* is caught and logged, and the manager's instance is never started
createServer(S, id, deviceId, st) == S \cup {Server(id, deviceId, st)}

updateServer(S, id, st) ==
    {IF s.id = id THEN Server(s.id, s.deviceId, st) ELSE s : s \in S}

\* the manager knows no server under the storage's uuid: its removeServer
\* throws, the throw is caught, and the record is removed
deleteServer(S, id) == {s \in S : s.id # id}

\* the manager after MemStorage.deleteServer has run for each record of todo
RECURSIVE removeManaged(_, _)
removeManaged(M, todo) ==
    IF todo = {} THEN M
    ELSE LET s == CHOOSE x \in todo : TRUE
         IN removeManaged(managerRemoveServer(M, Uuid(s.id)), todo \ {s})

\* the loop of DELETE /api/devices/:id over the device's servers
RECURSIVE removeServers(_, _)
removeServers(S, todo) ==
    IF todo = {} THEN S
    ELSE LET s == CHOOSE x \in todo : TRUE
             S1 == IF s.status = "running" THEN updateServer(S, s.id, "stopped") ELSE S
         IN removeServers(deleteServer(S1, s.id), todo \ {s})

(***************************************************************************)
(* The log buffer of a server instance and the handlers of its child's     *)
(* output streams.                                                         *)
(***************************************************************************)
VARIABLES
    \* MCPServerInstance.logs
    logs,
    \* the 'log' events the instance emitted during the last step
    logEvents,
    \* the 'data' event handled in the last step: its stream and its text
    lastData,
    \* the 'data' events handled so far
    outputs,
    \* history: every entry addLog was asked to append, in order
    appended

logVars == <<logs, logEvents, lastData, outputs, appended>>

Data(stream, text) == [stream |-> stream, text |-> text]

(***************************************************************************)
(* The useWebSocket hook of the client (client/src/lib/websocket.ts).      *)
(***************************************************************************)
VARIABLES
    \* ws.current: the place in sockets of the WebSocket it refers to, 0 for null
    ws,
    \* the WebSocket objects the hook has created, by their readyState
    sockets,
    \* reconnectTimeoutRef.current: the timer handle it holds, 0 for undefined
    reconnectTimeoutRef,
    \* the reconnect timers that are set and have neither fired nor been cleared
    timers,
    \* the timer handles setTimeout has handed out so far
    handles,
    \* isConnectedRef.current
    isConnectedRef,
    \* the component that uses the hook is mounted
    mounted,
    \* history: disconnect() has been called and the effect has not run since
    disconnected

hookVars == <<ws, sockets, reconnectTimeoutRef, timers, handles, isConnectedRef,
              mounted, disconnected>>

\* the hook before its first effect has run
HookIdle ==
    /\ ws = 0
    /\ sockets = <<>>
    /\ reconnectTimeoutRef = 0
    /\ timers = {}
    /\ handles = 0
    /\ isConnectedRef = FALSE
    /\ mounted = FALSE
    /\ disconnected = FALSE

LogIdle ==
    /\ logs = <<>>
    /\ logEvents = <<>>
    /\ lastData = Data("none", <<>>)
    /\ outputs = 0
    /\ appended = <<>>

\* ret: the call (op), how it ended (res), and for a stop() that completed in
\* this step the live process its graceful signal had reached (target, else 0)
Ret(op, res, target) == [op |-> op, res |-> res, target |-> target]

NoRet == Ret("none", "none", 0)

\* the count of abnormal exits is kept exact up to every configured limit
ExitsCap == MaxCfgRestarts + 1

\* this.config.maxRestarts || 3
OrDefault(m) == IF m = 0 THEN DEFAULT_MAX_RESTARTS ELSE m

\* a ChildProcess handle right after a successful spawn
\*   alive   the OS process exists (its exit has not been observed)
\*   killed  ChildProcess.killed: kill() delivered a signal to it
\*   hasPid  ChildProcess.pid is a number (it is undefined when the spawn failed)
NewProc == [alive |-> TRUE, killed |-> FALSE, hasPid |-> TRUE]

\* a ChildProcess handle whose spawn failed (ENOENT, EACCES): no OS process
FailedProc == [alive |-> FALSE, killed |-> FALSE, hasPid |-> FALSE]

\* a live child takes a spawn the callers asked for: MaxCalls pids are enough
Pids == 1..(MaxCalls + 1)

Live(ps) == {p \in DOMAIN ps : ps[p].alive}

\* the pid of a new handle: the least one no live process holds
FreshPid(ps) == CHOOSE p \in Pids \ Live(ps) : \A q \in Pids \ Live(ps) : p <= q

\* handles nothing refers to any more are dropped: exited and not this.process
Collect(ps, cur) == [p \in {q \in DOMAIN ps : ps[q].alive \/ q = cur} |-> ps[p]]

\* the instance state the handlers read and write
St == [status |-> status, restartCount |-> restartCount, process |-> process,
       uptime |-> uptime, lastLog |-> lastLog, procs |-> procs,
       tasks |-> tasks, emitted |-> <<>>, signals |-> <<>>,
       registered |-> registered]

Commit(s) ==
    /\ status' = s.status
    /\ restartCount' = s.restartCount
    /\ process' = s.process
    /\ uptime' = s.uptime
    /\ lastLog' = s.lastLog
    /\ procs' = Collect(s.procs, s.process)
    /\ tasks' = s.tasks
    /\ emitted' = s.emitted
    /\ signals' = s.signals
    /\ registered' = s.registered

addLog(s, entry) == [s EXCEPT !.lastLog = entry]

emit(s, ev) == [s EXCEPT !.emitted = Append(@, ev)]

\* ChildProcess.kill(signal): delivers the signal and sets killed only while the
\* handle is open; on an exited process it returns false and changes nothing.
kill(s, p, sig) ==
    LET live == s.procs[p].alive
        s1 == [s EXCEPT !.signals = Append(@, [pid |-> p, sig |-> sig, live |-> live])]
    IN IF live THEN [s1 EXCEPT !.procs[p].killed = TRUE] ELSE s1

\* a start() that lost its guard
AlreadyRunning_Unguarded(s) == FALSE

\* start(): the guard of its first statement
AlreadyRunning(s) == s.status = "running"

\* a start() whose child reports a failed spawn to no handler
spawnAndRun_NoErrorHandler(s, outcome) ==
    IF outcome = "throw"
    THEN emit(addLog([s EXCEPT !.status = "error"], "error:startFailed"), "error")
    ELSE LET h == IF outcome = "ok" THEN NewProc ELSE FailedProc
             pid == FreshPid(s.procs)
             s1 == [s EXCEPT !.procs = (pid :> h) @@ @, !.process = pid,
                             !.status = "running", !.uptime = TRUE]
         IN emit(addLog(s1, "info:started"), "started")

\* start() past the guard; outcome is what spawn() does:
\*   "ok"     the child runs
\*   "enoent" spawn returns a handle and reports the failure through the
\*            handle's 'error' event on the next tick, before any other event
\*   "throw"  spawn throws synchronously (invalid arguments)
spawnAndRun(s, outcome) ==
    IF outcome = "throw"
    THEN emit(addLog([s EXCEPT !.status = "error"], "error:startFailed"), "error")
    ELSE LET h == IF outcome = "ok" THEN NewProc ELSE FailedProc
             pid == FreshPid(s.procs)
             s1 == [s EXCEPT !.procs = (pid :> h) @@ @, !.process = pid,
                             !.status = "running", !.uptime = TRUE]
             s2 == emit(addLog(s1, "info:started"), "started")
         IN IF outcome = "ok"
            THEN s2
            ELSE emit(addLog([s2 EXCEPT !.status = "error"], "error:processError"),
                      "error")

StartResult(outcome) == IF outcome = "throw" THEN "spawnError" ELSE "ok"

\* stop() up to its await: the log line and the graceful signal
stopBegin(s) ==
    LET s1 == addLog(s, "info:stopping")
    IN IF s1.process # 0 THEN kill(s1, s1.process, "SIGTERM") ELSE s1

\* stop(): the condition of the forceful signal, read when the grace timer fires
NeedsForceKill(s) == s.process # 0 /\ ~s.procs[s.process].killed

\* stop() after the grace window
stopEnd(s) ==
    LET s1 == IF NeedsForceKill(s)
              THEN addLog(kill(s, s.process, "SIGKILL"), "warn:forceKilled")
              ELSE s
        s2 == [s1 EXCEPT !.status = "stopped", !.uptime = FALSE]
    IN emit(addLog(s2, "info:stopped"), "stopped")

\* the live process the graceful signal of a stop() beginning now reaches
StopTarget(s) == IF s.process # 0 /\ s.procs[s.process].alive THEN s.process ELSE 0

\* a pending setTimeout continuation
\*   kind  "auto"   the exit handler's 5 s timer that calls restart()
\*         "grace"  stop() awaiting its 5 s grace window
\*         "delay"  restart() awaiting its 2 s pause
\*   op    the call the continuation belongs to: "stop", "restart", "remove"
\*         (removeServer) or "auto" (the auto-restart chain)
\*   target  of a grace timer: the live process the stop() signalled, 0 once
\*         it has exited
Task(kind, op, target) == [kind |-> kind, op |-> op, target |-> target]

Duration(kind) ==
    CASE kind = "auto" -> AUTO_RESTART_DELAY_MS
      [] kind = "grace" -> GRACE_MS
      [] kind = "delay" -> RESTART_DELAY_MS

RemoveAt(seq, i) == SubSeq(seq, 1, i - 1) \o SubSeq(seq, i + 1, Len(seq))

\* stop() as called by op, from its first statement to its first await or,
\* with no process handle, to its end
beginStop(s, op) ==
    LET s1 == stopBegin(s)
    IN IF s.process # 0
       THEN [s1 EXCEPT !.tasks = Append(@, Task("grace", op, StopTarget(s)))]
       ELSE LET s2 == stopEnd(s1)
            IN CASE op = "stop" -> s2
                 [] op = "remove" -> [s2 EXCEPT !.registered = FALSE]
                 [] OTHER -> [s2 EXCEPT !.tasks =
                                  Append(@, Task("delay", op, 0))]

\* restart() up to its first await
beginRestart(s, op) == beginStop(addLog(s, "info:restarting"), op)

\* an exit handler that gives up one restart early
ShouldAutoRestart_OneShort(s, code) ==
    /\ config.autoRestart
    /\ s.restartCount + 1 < OrDefault(config.maxRestarts)
    /\ code # "0"

\* an exit handler that compares with <= and so allows one restart too many
ShouldAutoRestart_OffByOne(s, code) ==
    /\ config.autoRestart
    /\ s.restartCount <= OrDefault(config.maxRestarts)
    /\ code # "0"

\* an exit handler that does not look at the exit code
ShouldAutoRestart_AnyCode(s, code) ==
    /\ config.autoRestart
    /\ s.restartCount < OrDefault(config.maxRestarts)

\* the exit handler's condition for scheduling a restart
ShouldAutoRestart(s, code) ==
    /\ config.autoRestart
    /\ s.restartCount < OrDefault(config.maxRestarts)
    /\ code # "0"

\* process.on('exit') of handle p
onExit(s, p, code) ==
    LET s0 == [s EXCEPT !.procs[p].alive = FALSE,
                        !.tasks = [i \in 1..Len(s.tasks) |->
                                     IF s.tasks[i].target = p
                                     THEN [s.tasks[i] EXCEPT !.target = 0]
                                     ELSE s.tasks[i]]]
        s1 == addLog(s0, "info:exit")
        s2 == [s1 EXCEPT !.status = IF code = "0" THEN "stopped" ELSE "error",
                         !.uptime = FALSE]
        s3 == emit(s2, "exit")
    IN IF ShouldAutoRestart(s3, code)
       THEN [addLog(s3, "info:autoRestarting") EXCEPT !.tasks =
                Append(@, Task("auto", "auto", 0))]
       ELSE s3

(***************************************************************************)
(* The supervisor's steps.                                                  *)
(***************************************************************************)
SpawnOutcomes == {"ok", "enoent", "throw"}

\* the code of an exit notification; "null" comes with a signal name
ExitCodes == {"0", "1", "null"}

\* what the last step returned to its caller: id is the execution it concerns,
\* arg the client and the tool of a direct invocation
WfRet(op, res, id) == [op |-> op, res |-> res, id |-> id, arg |-> <<>>]

NoWfRet == WfRet("none", "none", <<>>)

\* the registry and the engine at rest
WfIdle ==
    /\ clients = <<>>
    /\ wf = <<>>
    /\ now = 1
    /\ execs = <<>>
    /\ wfMap = <<>>
    /\ threads = <<>>
    /\ sent = <<>>
    /\ mgrEvents = <<>>
    /\ wfRet = NoWfRet
    /\ runs = 0
    /\ toolResults = <<>>
    /\ probes = <<>>
    /\ hcEvents = <<>>
    /\ ticks = 0

\* the supervisor with nothing created
SupIdle ==
    /\ config = [autoRestart |-> FALSE, maxRestarts |-> DEFAULT_MAX_RESTARTS]
    /\ insertServer = [maxRestarts |-> 0]
    /\ registered = FALSE
    /\ status = "stopped"
    /\ restartCount = 0
    /\ process = 0
    /\ uptime = FALSE
    /\ lastLog = "none"
    /\ procs = <<>>
    /\ tasks = <<>>
    /\ emitted = <<>>
    /\ signals = <<>>
    /\ ret = NoRet
    /\ calls = 0
    /\ abnExits = 0
    /\ manualStop = FALSE
    /\ voided = FALSE
    /\ exhausted = FALSE

SupInit ==
    /\ LogIdle
    /\ HookIdle
    /\ DevIdle
    /\ insertServer \in [maxRestarts : 0..MaxCfgRestarts]
    /\ config \in [autoRestart : BOOLEAN,
                   maxRestarts : {OrDefault(insertServer.maxRestarts)}]
    /\ registered = TRUE
    /\ status = "stopped"
    /\ restartCount = 0
    /\ process = 0
    /\ uptime = FALSE
    /\ lastLog = "none"
    /\ procs = <<>>
    /\ signals = <<>>
    /\ tasks = <<>>
    /\ emitted = <<>>
    /\ ret = NoRet
    /\ calls = 0
    /\ abnExits = 0
    /\ manualStop = FALSE
    /\ voided = FALSE
    /\ exhausted = FALSE
    /\ WfIdle

\* the exit handler's timer is pending and no restart() it started is under way
RestartPending(ts) ==
    /\ \E i \in 1..Len(ts) : ts[i].kind = "auto"
    /\ \A i \in 1..Len(ts) : ts[i].kind # "auto" => ts[i].op # "auto"

\* getStatus().pid: this.process?.pid || null, with 0 for null
StatusPid(s) == IF s.process # 0 /\ s.procs[s.process].hasPid THEN s.process ELSE 0

\* getStatus().lastError: the last log entry while status is error
StatusLastError(s) == IF s.status = "error" THEN s.lastLog ELSE "none"

\* a caller's request
Call ==
    /\ calls < MaxCalls
    /\ calls' = calls + 1

Quiet(op, res) ==
    /\ ret' = Ret(op, res, 0)
    /\ emitted' = <<>>
    /\ signals' = <<>>
    /\ UNCHANGED <<registered, status, restartCount, process, uptime, lastLog,
                   procs, tasks>>

\* MCPServerManager.startServer -> MCPServerInstance.start
Start(outcome) ==
    /\ Call
    /\ manualStop' = FALSE
    /\ voided' = FALSE
    /\ UNCHANGED <<config, insertServer, abnExits, exhausted, wfVars, devVars, logVars, hookVars>>
    /\ IF ~registered THEN Quiet("start", "notFound")
       ELSE IF AlreadyRunning(St) THEN Quiet("start", "alreadyRunning")
       ELSE /\ Commit(spawnAndRun(St, outcome))
            /\ ret' = Ret("start", StartResult(outcome), 0)

\* MCPServerManager.stopServer -> MCPServerInstance.stop, to its await
Stop ==
    /\ Call
    /\ manualStop' = (manualStop \/ (registered /\ status = "running"))
    /\ voided' = (voided \/ (registered /\ RestartPending(tasks)))
    /\ UNCHANGED <<config, insertServer, abnExits, exhausted, wfVars, devVars, logVars, hookVars>>
    /\ IF ~registered THEN Quiet("stop", "notFound")
       ELSE /\ Commit(beginStop(St, "stop"))
            /\ ret' = Ret("stop", IF process = 0 THEN "ok" ELSE "pending", 0)

\* MCPServerManager.restartServer -> MCPServerInstance.restart, to its await
Restart ==
    /\ Call
    /\ manualStop' = FALSE
    /\ voided' = FALSE
    /\ UNCHANGED <<config, insertServer, abnExits, exhausted, wfVars, devVars, logVars, hookVars>>
    /\ IF ~registered THEN Quiet("restart", "notFound")
       ELSE /\ Commit(beginRestart(St, "restart"))
            /\ ret' = Ret("restart", "pending", 0)

\* MCPServerManager.removeServer, to the await inside stop()
RemoveServer ==
    /\ Call
    /\ manualStop' = (manualStop \/ (registered /\ status = "running"))
    /\ voided' = (voided \/ (registered /\ RestartPending(tasks)))
    /\ UNCHANGED <<config, insertServer, abnExits, exhausted, wfVars, devVars, logVars, hookVars>>
    /\ IF ~registered THEN Quiet("remove", "notFound")
       ELSE /\ Commit(beginStop(St, "remove"))
            /\ ret' = Ret("remove", IF process = 0 THEN "ok" ELSE "pending", 0)

\* child process p exits; code "null" is an exit by SIGTERM or SIGKILL
ProcessExit(p, code) ==
    /\ procs[p].alive
    /\ code = "null" => procs[p].killed
    /\ Commit(onExit(St, p, code))
    /\ ret' = NoRet
    /\ abnExits' = IF code # "0" /\ abnExits < ExitsCap THEN abnExits + 1 ELSE abnExits
    /\ voided' = (voided /\ ~ShouldAutoRestart(St, code))
    /\ exhausted' = (exhausted \/ (/\ code # "0"
                                   /\ config.autoRestart
                                   /\ restartCount = OrDefault(config.maxRestarts)))
    /\ UNCHANGED <<config, insertServer, calls, manualStop, wfVars, devVars, logVars, hookVars>>

\* Timer i may be the next to fire: no timer set before it is due sooner.  A
\* timer set earlier with a duration no longer than timer i's has the earlier
\* deadline (or the same one and the earlier place in the timer list).
Due(i) == \A j \in 1..(i - 1) : Duration(tasks[j].kind) > Duration(tasks[i].kind)

\* the exit handler's timer fires: restart() runs to its await
AutoRestartTimer(i) ==
    /\ tasks[i].kind = "auto"
    /\ Due(i)
    /\ Commit(beginRestart([St EXCEPT !.tasks = RemoveAt(tasks, i)], "auto"))
    /\ ret' = Ret("auto", "pending", 0)
    /\ UNCHANGED <<config, insertServer, calls, abnExits, manualStop, voided, exhausted, wfVars, devVars, logVars, hookVars>>

\* the grace timer of a stop() fires: stop() runs to its end, and its caller
\* (restart, removeServer) continues
GraceElapsed(i) ==
    /\ tasks[i].kind = "grace"
    /\ Due(i)
    /\ LET op == tasks[i].op
           s1 == stopEnd([St EXCEPT !.tasks = RemoveAt(tasks, i)])
       IN CASE op = "stop" ->
                 Commit(s1) /\ ret' = Ret(op, "ok", tasks[i].target)
            [] op = "remove" ->
                 Commit([s1 EXCEPT !.registered = FALSE])
                 /\ ret' = Ret(op, "ok", tasks[i].target)
            [] OTHER ->
                 Commit([s1 EXCEPT !.tasks =
                            Append(@, Task("delay", op, 0))])
                 /\ ret' = Ret(op, "pending", tasks[i].target)
    /\ UNCHANGED <<config, insertServer, calls, abnExits, manualStop, voided, exhausted, wfVars, devVars, logVars, hookVars>>

\* restart() after its pause: the counter, then start(); the auto-restart
\* chain catches a failure and logs it
RestartDelayElapsed(i, outcome) ==
    /\ tasks[i].kind = "delay"
    /\ Due(i)
    /\ LET op == tasks[i].op
           s1 == [St EXCEPT !.tasks = RemoveAt(tasks, i),
                            !.restartCount = @ + 1]
           caught(s) == IF op = "auto" THEN addLog(s, "error:autoRestartFailed") ELSE s
       IN IF AlreadyRunning(s1)
          THEN Commit(caught(s1)) /\ ret' = Ret(op, "alreadyRunning", 0)
          ELSE /\ Commit(IF outcome = "throw"
                         THEN caught(spawnAndRun(s1, outcome))
                         ELSE spawnAndRun(s1, outcome))
               /\ ret' = Ret(op, StartResult(outcome), 0)
    /\ UNCHANGED <<config, insertServer, calls, abnExits, manualStop, voided, exhausted, wfVars, devVars, logVars, hookVars>>

SupNext ==
    \/ \E o \in SpawnOutcomes : Start(o)
    \/ Stop
    \/ Restart
    \/ RemoveServer
    \/ \E p \in DOMAIN procs, c \in ExitCodes : ProcessExit(p, c)
    \/ \E i \in 1..Len(tasks) : AutoRestartTimer(i)
    \/ \E i \in 1..Len(tasks) : GraceElapsed(i)
    \/ \E i \in 1..Len(tasks), o \in SpawnOutcomes : RestartDelayElapsed(i, o)

(***************************************************************************)
(* The client registry and the workflow engine.                             *)
(***************************************************************************)
ClientIds == {"x", "y"}

\* the tools a peer may advertise
Tools == {"ping"}

\* the tools a caller may ask for
ToolNames == Tools \cup {"scan"}

\* the parameter keys of a step; 0 is a key that is not set
Keys == {"r", "q"}

\* the data a peer may answer with
DataVals == {42, 7}

\* a WorkflowStep; clientId "" is a step with no explicit peer, outputTo ""
\* one with no output label
Step(name, clientId, outputTo, dependsOn) ==
    [name |-> name, clientId |-> clientId, toolName |-> "ping",
     parameters |-> [k \in Keys |-> IF k = "q" THEN 1 ELSE 0],
     dependsOn |-> dependsOn, outputTo |-> outputTo]

\* workflows that exercise peer resolution and failure: any peer, no data flow
ControlWorkflows ==
    {<<Step("A", a, "", {}), Step("B", b, "", {})>> : a, b \in ClientIds \cup {""}}

\* workflows that exercise data flow: three steps on peer x
DataWorkflows ==
    {<<Step("A", "x", "r", {}), Step("B", "x", o, d1), Step("C", "x", "", d2)>> :
        o \in {"", "r"}, d1 \in SUBSET {"A"}, d2 \in SUBSET {"A", "B"}}

\* a workflow whose middle step names no peer and asks for a tool that no
\* peer advertises
DeferredWorkflows ==
    {<<Step("A", "x", "", {}),
       [Step("B", "", "", {}) EXCEPT !.toolName = "scan"],
       Step("C", "x", "", {})>>}

Workflows == ControlWorkflows \cup DataWorkflows \cup DeferredWorkflows

\* Map.get(id): the place of client id in the registry, 0 when absent
Lookup(cs, id) ==
    IF \E i \in 1..Len(cs) : cs[i].id = id
    THEN CHOOSE i \in 1..Len(cs) : cs[i].id = id
    ELSE 0

\* invokeTool without its connection guard
invokeGuard_NoConnectedCheck(c, tool) ==
    IF tool \notin c.tools THEN "capability" ELSE "ok"

\* invokeTool's guards, in order; "ok" when the request goes out
invokeGuard(c, tool) ==
    IF ~c.connected THEN "notConnected"
    ELSE IF tool \notin c.tools THEN "capability"
    ELSE "ok"

\* invokeToolOnClient / executeWorkflowStep: the lookup, then invokeTool's guards
invokeToolOnClient(cs, id, tool) ==
    IF Lookup(cs, id) = 0 THEN "notFound" ELSE invokeGuard(cs[Lookup(cs, id)], tool)

\* the first registered client whose discovered tools include the tool; "" for null
findSuitableClientForTool(cs, tool) ==
    LET fits == {i \in 1..Len(cs) : tool \in cs[i].tools}
    IN IF fits = {} THEN ""
       ELSE cs[CHOOSE i \in fits : \A j \in fits : i <= j].id

\* an analysis that also requires a peer for a step it cannot resolve
analyzeWorkflowRequirements_Strict(cs, steps) ==
    {IF steps[i].clientId # "" THEN steps[i].clientId
     ELSE findSuitableClientForTool(cs, steps[i].toolName) : i \in 1..Len(steps)}

\* the ids of the clients the steps name or resolve to
analyzeWorkflowRequirements(cs, steps) ==
    {IF steps[i].clientId # "" THEN steps[i].clientId
     ELSE findSuitableClientForTool(cs, steps[i].toolName) : i \in 1..Len(steps)}
    \ {""}

\* executeDistributedWorkflow without its pre-flight loop
RequiredAvailable_Skipped(cs, steps) == TRUE

\* the pre-flight loop of executeDistributedWorkflow passes
RequiredAvailable(cs, steps) ==
    \A id \in analyzeWorkflowRequirements(cs, steps) :
        Lookup(cs, id) # 0 /\ cs[Lookup(cs, id)].connected

\* step.clientId || selectBestClientForStep(step); "" when the latter throws
StepClient(cs, step) ==
    IF step.clientId # "" THEN step.clientId
    ELSE findSuitableClientForTool(cs, step.toolName)

\* executeDistributedWorkflow without its data passing
propagate_Skipped(steps, i, d) == steps

\* a propagation that writes into every later step, dependent or not
propagate_AllLater(steps, i, d) ==
    IF steps[i].outputTo = "" THEN steps
    ELSE [j \in 1..Len(steps) |->
            IF j > i
            THEN [steps[j] EXCEPT !.parameters[steps[i].outputTo] = d]
            ELSE steps[j]]

\* the propagation after step i (1-based) succeeded with data d
propagate(steps, i, d) ==
    IF steps[i].outputTo = "" THEN steps
    ELSE [j \in 1..Len(steps) |->
            IF j > i /\ steps[i].name \in steps[j].dependsOn
            THEN [steps[j] EXCEPT !.parameters[steps[i].outputTo] = d]
            ELSE steps[j]]

\* a WorkflowExecution object; failedStep is -1 while not recorded
NewExec(id, kind) ==
    [id |-> id, kind |-> kind, status |-> "running", results |-> <<>>,
     failedStep |-> -1, error |-> "none"]

\* a request body on the wire, with the peer it goes to
Request(client, step, corr) ==
    [client |-> client, tool |-> step.toolName, parameters |-> step.parameters,
     correlationId |-> corr]

\* a call awaiting a peer's answer: the execution it drives (exec: its object,
\* id: its workflowId), the index i of the step in flight (0-based, as in the
\* code), its own copy of the step list and the correlationId invokeTool got
Thread(kind, id, exec, i, steps, client, corr) ==
    [kind |-> kind, id |-> id, exec |-> exec, i |-> i, steps |-> steps,
     client |-> client, corr |-> corr]

\* the engine state the handlers read and write
Ws == [clients |-> clients, execs |-> execs, wfMap |-> wfMap, threads |-> threads,
       sent |-> <<>>, mgrEvents |-> <<>>, wfRet |-> NoWfRet,
       toolResults |-> <<>>, probes |-> probes, hcEvents |-> <<>>]

WfCommit(s) ==
    /\ clients' = s.clients
    /\ execs' = s.execs
    /\ wfMap' = s.wfMap
    /\ threads' = s.threads
    /\ sent' = s.sent
    /\ mgrEvents' = s.mgrEvents
    /\ wfRet' = s.wfRet
    /\ toolResults' = s.toolResults
    /\ probes' = s.probes
    /\ hcEvents' = s.hcEvents

wemit(s, ev) == [s EXCEPT !.mgrEvents = Append(@, ev)]

\* the catch of executeWorkflow / executeDistributedWorkflow: the object the
\* map holds under the id, if any, is marked failed; the call rejects
outerCatch(s, kind, id, why) ==
    LET s1 == IF id \in DOMAIN s.wfMap
              THEN [s EXCEPT !.execs[s.wfMap[id]].status = "failed",
                             !.execs[s.wfMap[id]].error = why]
              ELSE s
        s2 == IF kind = "distributed" THEN wemit(s1, "distributedWorkflowFailed")
              ELSE s1
    IN [s2 EXCEPT !.wfRet = WfRet(kind, "throw", id)]

\* an executeWorkflow whose loop walks the steps from the last one
runWorkflow_Backwards(s, id, e, i, steps) ==
    IF i >= Len(steps)
    THEN LET s1 == [s EXCEPT !.execs[e].status = "completed"]
         IN [wemit(s1, "workflowCompleted") EXCEPT !.wfRet = WfRet("workflow", "ok", id)]
    ELSE LET step == steps[Len(steps) - i]
             g == invokeToolOnClient(s.clients, step.clientId, step.toolName)
         IN IF g = "ok"
            THEN [s EXCEPT !.sent = Append(@, Request(step.clientId, step, <<>>)),
                           !.threads = Append(@, Thread("workflow", id, e,
                                                        Len(steps) - 1 - i, steps,
                                                        step.clientId, <<>>)),
                           !.wfRet = WfRet("workflow", "pending", id)]
            ELSE LET s1 == [s EXCEPT !.execs[e].status = "failed",
                                     !.execs[e].error = g,
                                     !.execs[e].failedStep = i]
                 IN outerCatch(wemit(s1, "workflowFailed"), "workflow", id, g)

\* executeWorkflow's loop from `const step = workflowSpec.steps[i]` (i 0-based)
\* to the await of the step's request, or to the end of the call
runWorkflow(s, id, e, i, steps) ==
    IF i >= Len(steps)
    THEN LET s1 == [s EXCEPT !.execs[e].status = "completed"]
         IN [wemit(s1, "workflowCompleted") EXCEPT !.wfRet = WfRet("workflow", "ok", id)]
    ELSE LET step == steps[i + 1]
             g == invokeToolOnClient(s.clients, step.clientId, step.toolName)
         IN IF g = "ok"
            THEN [s EXCEPT !.sent = Append(@, Request(step.clientId, step, <<>>)),
                           !.threads = Append(@, Thread("workflow", id, e, i, steps,
                                                        step.clientId, <<>>)),
                           !.wfRet = WfRet("workflow", "pending", id)]
            ELSE LET s1 == [s EXCEPT !.execs[e].status = "failed",
                                     !.execs[e].error = g,
                                     !.execs[e].failedStep = i]
                 IN outerCatch(wemit(s1, "workflowFailed"), "workflow", id, g)

\* executeDistributedWorkflow's loop from `const step = workflow.steps[i]` to
\* the await of the step's request, or to the end of the call
runDistributed(s, id, e, i, steps) ==
    IF i >= Len(steps)
    THEN LET s1 == [s EXCEPT !.execs[e].status = "completed"]
         IN [wemit(s1, "distributedWorkflowCompleted") EXCEPT
                !.wfRet = WfRet("distributed", "ok", id)]
    ELSE LET step == steps[i + 1]
             cid == StepClient(s.clients, step)
             g == IF cid = "" THEN "noSuitableClient"
                  ELSE invokeToolOnClient(s.clients, cid, step.toolName)
         IN IF g = "ok"
            THEN [s EXCEPT !.sent = Append(@, Request(cid, step, <<id, i>>)),
                           !.threads = Append(@, Thread("distributed", id, e, i,
                                                        steps, cid, <<id, i>>)),
                           !.wfRet = WfRet("distributed", "pending", id)]
            ELSE outerCatch(s, "distributed", id, g)

\* a step's MCPToolResult
Result(i, success, data) == [stepIndex |-> i, success |-> success, data |-> data]

WfInit ==
    /\ LogIdle
    /\ HookIdle
    /\ DevIdle
    /\ clients = <<>>
    /\ wf \in Workflows
    /\ now = 1
    /\ execs = <<>>
    /\ wfMap = <<>>
    /\ threads = <<>>
    /\ sent = <<>>
    /\ mgrEvents = <<>>
    /\ wfRet = NoWfRet
    /\ runs = 0
    /\ toolResults = <<>>
    /\ probes = <<>>
    /\ hcEvents = <<>>
    /\ ticks = 0
    /\ SupIdle

\* a call that rejects before it changes anything
WfQuiet(op, res) ==
    /\ wfRet' = WfRet(op, res, <<>>)
    /\ sent' = <<>>
    /\ mgrEvents' = <<>>
    /\ toolResults' = <<>>
    /\ hcEvents' = <<>>
    /\ UNCHANGED <<clients, execs, wfMap, threads, probes>>

\* the requests the callers may make
Budget == IF Len(wf) > 2 THEN MaxFlowRuns ELSE MaxRuns

Run == runs < Budget /\ runs' = runs + 1

\* a new MCPClientInstance: not connected, no discovered tools, its
\* health-check timer started when the config has a healthCheckInterval
NewClient(id, hc) ==
    [id |-> id, connected |-> FALSE, tools |-> {}, phase |-> "probe",
     timer |-> hc, lastHealthCheck |-> 0]

\* addClient up to its await of connect(): the instance is created and
\* registered; hc: its config has a healthCheckInterval
addClient_Overwrite(s, id, hc) ==
    LET c == Lookup(s.clients, id)
    IN [s EXCEPT !.clients = IF c # 0 THEN [@ EXCEPT ![c] = NewClient(id, hc)]
                             ELSE Append(@, NewClient(id, hc)),
                 !.wfRet = WfRet("addClient", "pending", <<>>)]

\* a registered id throws before anything is created
addClient(s, id, hc) ==
    IF Lookup(s.clients, id) # 0
    THEN [s EXCEPT !.wfRet = WfRet("addClient", "exists", <<>>)]
    ELSE [s EXCEPT !.clients = Append(@, NewClient(id, hc)),
                   !.wfRet = WfRet("addClient", "pending", <<>>)]

AddClient(id, hc) ==
    /\ Run
    /\ WfCommit(addClient(Ws, id, hc))
    /\ UNCHANGED <<wf, now, ticks, supVars, devVars, logVars, hookVars>>

\* connect() after its probe: discoverCapabilities ends, with the tool list
\* the peer gave (none when both endpoints failed)
Discover(id, ts) ==
    /\ Lookup(clients, id) # 0
    /\ clients[Lookup(clients, id)].phase = "probe"
    /\ WfCommit([Ws EXCEPT !.clients[Lookup(clients, id)].tools = ts,
                           !.clients[Lookup(clients, id)].phase = "discovered"])
    /\ UNCHANGED <<wf, now, runs, ticks, supVars, devVars, logVars, hookVars>>

\* a connect() whose catch emits nothing
connectCatch_Silent(s, id) == s

\* the catch of connect(): the 'error' event, which the manager forwards as
\* clientError; the error is thrown on to addClient, whose catch logs it
connectCatch(s, id) == wemit(s, "clientError")

\* connect() past its last await: connected is set and the event emitted
connectDone(s, id) ==
    wemit([s EXCEPT !.clients[Lookup(s.clients, id)].connected = TRUE],
          "clientConnected")

\* connect() ends: connected after the discovery (and the socket, if any), or
\* failed at the probe or at the socket; addClient swallows the failure and
\* returns.  arg: the client, and how its connect() settled
ConnectEnd(id, ok) ==
    /\ Lookup(clients, id) # 0
    /\ clients[Lookup(clients, id)].phase # "done"
    /\ ok => clients[Lookup(clients, id)].phase = "discovered"
    /\ LET s == [Ws EXCEPT !.clients[Lookup(clients, id)].phase = "done",
                           !.wfRet = [WfRet("addClient", "ok", <<>>) EXCEPT
                                         !.arg = <<id, IF ok THEN "resolved"
                                                       ELSE "rejected">>]]
       IN WfCommit(IF ok THEN connectDone(s, id) ELSE connectCatch(s, id))
    /\ UNCHANGED <<wf, now, runs, ticks, supVars, devVars, logVars, hookVars>>

\* disconnect(): connected is cleared, the interval is cleared (a probe the
\* timer has already started goes on), the event is emitted
disconnect(s, id) ==
    wemit([s EXCEPT !.clients[Lookup(s.clients, id)].connected = FALSE,
                    !.clients[Lookup(s.clients, id)].timer = FALSE],
          "clientDisconnected")

\* removeClient: disconnect(), then the registry entry goes; the probes of the
\* instance now belong to an object the registry no longer holds
RemoveClient(id) ==
    /\ Run
    /\ IF Lookup(clients, id) = 0
       THEN WfQuiet("removeClient", "notFound")
       ELSE WfCommit([disconnect(Ws, id) EXCEPT
                !.clients = RemoveAt(@, Lookup(clients, id)),
                !.probes = [k \in 1..Len(probes) |->
                              IF probes[k].id = id
                              THEN [probes[k] EXCEPT !.orphan = TRUE]
                              ELSE probes[k]],
                !.wfRet = WfRet("removeClient", "ok", <<>>)])
    /\ UNCHANGED <<wf, now, ticks, supVars, devVars, logVars, hookVars>>

\* invokeToolOnClient called directly, up to the await of the request
InvokeTool(id, tool) ==
    /\ Run
    /\ LET g == invokeToolOnClient(clients, id, tool)
       IN IF g = "ok"
          THEN WfCommit([Ws EXCEPT
                   !.sent = Append(@, [client |-> id, tool |-> tool,
                                       parameters |-> [k \in Keys |-> 0],
                                       correlationId |-> <<>>]),
                   !.threads = Append(@, Thread("invoke", <<>>, 0, 0, <<>>, id, <<>>)),
                   !.wfRet = [WfRet("invoke", "pending", <<>>) EXCEPT
                                 !.arg = <<id, tool>>]])
          ELSE WfCommit([Ws EXCEPT !.wfRet =
                            [WfRet("invoke", g, <<>>) EXCEPT !.arg = <<id, tool>>]])
    /\ UNCHANGED <<wf, now, ticks, supVars, devVars, logVars, hookVars>>

\* what Date.now() may return: the millisecond of the last reading, or a later one
Clock == {now, now + 1}

\* executeWorkflow up to its first await
SubmitWorkflow(t) ==
    /\ Run
    /\ now' = t
    /\ LET id == <<"workflow", t>>
           e == Len(execs) + 1
           s == [Ws EXCEPT !.execs = Append(@, NewExec(id, "workflow")),
                           !.wfMap = (id :> e) @@ @]
       IN WfCommit(runWorkflow(s, id, e, 0, wf))
    /\ UNCHANGED <<wf, ticks, supVars, devVars, logVars, hookVars>>

\* executeDistributedWorkflow up to its first await
SubmitDistributed(t) ==
    /\ Run
    /\ now' = t
    /\ LET id == <<"distributed", t>>
           e == Len(execs) + 1
           s == [Ws EXCEPT !.execs = Append(@, NewExec(id, "distributed")),
                           !.wfMap = (id :> e) @@ @]
       IN IF RequiredAvailable(clients, wf)
          THEN WfCommit(runDistributed(s, id, e, 0, wf))
          ELSE WfCommit(outerCatch(Ws, "distributed", id, "notAvailable"))
    /\ UNCHANGED <<wf, ticks, supVars, devVars, logVars, hookVars>>

\* the answers a request can get: a payload, or an error or a timeout
Answers == [ok : {TRUE}, data : DataVals] \cup {[ok |-> FALSE, data |-> 0]}

\* an invokeTool that leaves the correlationId out of what it returns
toolResult_NoCorrelation(a, corr) ==
    [success |-> a.ok, data |-> a.data, error |-> ~a.ok, correlationId |-> <<>>]

\* the MCPToolResult invokeTool builds from the peer's answer: error stands
\* for the presence of the message
toolResult(a, corr) ==
    [success |-> a.ok, data |-> a.data, error |-> ~a.ok, correlationId |-> corr]

\* the continuation of the call threads[t] when its request settles
Response(t, a) ==
    /\ t \in 1..Len(threads)
    /\ LET th == threads[t]
           ok == a.ok
           r == Result(th.i, ok, a.data)
           s0 == wemit([Ws EXCEPT !.threads = RemoveAt(@, t),
                                  !.toolResults = <<toolResult(a, th.corr)>>],
                       IF ok THEN "toolInvoked" ELSE "toolError")
       IN CASE th.kind = "invoke" ->
                 WfCommit([s0 EXCEPT !.wfRet =
                              WfRet("invoke", IF ok THEN "success" ELSE "failure", <<>>)])
            [] th.kind = "workflow" ->
                 LET s1 == [s0 EXCEPT !.execs[th.exec].results = Append(@, r)]
                 IN WfCommit(runWorkflow(wemit(s1, "workflowStepCompleted"),
                                         th.id, th.exec, th.i + 1, th.steps))
            [] th.kind = "distributed" ->
                 LET s1 == [s0 EXCEPT !.execs[th.exec].results = Append(@, r)]
                     steps == IF ok THEN propagate(th.steps, th.i + 1, a.data) ELSE th.steps
                 IN WfCommit(runDistributed(s1, th.id, th.exec, th.i + 1, steps))
    /\ UNCHANGED <<wf, now, runs, ticks, supVars, devVars, logVars, hookVars>>

WfNext ==
    \/ \E id \in ClientIds : AddClient(id, FALSE)
    \/ \E id \in ClientIds, ts \in SUBSET Tools : Discover(id, ts)
    \/ \E id \in ClientIds, ok \in BOOLEAN : ConnectEnd(id, ok)
    \/ \E id \in ClientIds : RemoveClient(id)
    \/ \E id \in ClientIds, tool \in ToolNames : InvokeTool(id, tool)
    \/ \E t \in Clock : SubmitWorkflow(t)
    \/ \E t \in Clock : SubmitDistributed(t)
    \/ \E t \in 1..Len(threads), a \in Answers : Response(t, a)

allVars == <<supVars, wfVars, devVars, logVars, hookVars>>

\* one managed server instance under its callers, its process and its timers
Spec == SupInit /\ [][SupNext]_allVars

\* the client registry and the workflow engine under their callers and peers
WfSpec == WfInit /\ [][WfNext]_allVars

(***************************************************************************)
(* The registry and the health checks of its clients.                      *)
(***************************************************************************)
\* a health probe in flight
Probe(id) == [id |-> id, orphan |-> FALSE]

\* the payload of a healthCheck event
HealthCheck(id, healthy, timestamp) ==
    [clientId |-> id, healthy |-> healthy, timestamp |-> timestamp]

\* an interval callback that marks the client disconnected on a failed probe
healthCheckDone_MarksDown(s, k, healthy, t) ==
    LET p == s.probes[k]
        s1 == [s EXCEPT !.probes = RemoveAt(@, k)]
        s2 == IF p.orphan THEN s1
              ELSE IF healthy
              THEN [s1 EXCEPT !.clients[Lookup(s.clients, p.id)].lastHealthCheck = t]
              ELSE [s1 EXCEPT !.clients[Lookup(s.clients, p.id)].connected = FALSE]
        s3 == [s2 EXCEPT !.hcEvents = Append(@, HealthCheck(p.id, healthy, t))]
    IN wemit(s3, "clientHealthCheck")

\* the interval callback from testHttpConnection's answer on; t is what
\* new Date() gives.  The manager forwards the event as clientHealthCheck.
healthCheckDone(s, k, healthy, t) ==
    LET p == s.probes[k]
        s1 == [s EXCEPT !.probes = RemoveAt(@, k)]
        s2 == IF healthy /\ ~p.orphan
              THEN [s1 EXCEPT !.clients[Lookup(s.clients, p.id)].lastHealthCheck = t]
              ELSE s1
        s3 == [s2 EXCEPT !.hcEvents = Append(@, HealthCheck(p.id, healthy, t))]
    IN wemit(s3, "clientHealthCheck")

HcInit ==
    /\ LogIdle
    /\ HookIdle
    /\ DevIdle
    /\ clients = <<>>
    /\ wf = <<>>
    /\ now = 1
    /\ execs = <<>>
    /\ wfMap = <<>>
    /\ threads = <<>>
    /\ sent = <<>>
    /\ mgrEvents = <<>>
    /\ wfRet = NoWfRet
    /\ runs = 0
    /\ toolResults = <<>>
    /\ probes = <<>>
    /\ hcEvents = <<>>
    /\ ticks = 0
    /\ SupIdle

\* the health-check interval of a registered client fires: the callback runs
\* to its await of the probe
Tick(id) ==
    /\ Lookup(clients, id) # 0
    /\ clients[Lookup(clients, id)].timer
    /\ ticks < MaxTicks
    /\ ticks' = ticks + 1
    /\ WfCommit([Ws EXCEPT !.probes = Append(@, Probe(id))])
    /\ UNCHANGED <<wf, now, runs, supVars, devVars, logVars, hookVars>>

\* the probe k settles: healthy when one of the two endpoints answered
ProbeEnd(k, healthy, t) ==
    /\ k \in 1..Len(probes)
    /\ now' = t
    /\ WfCommit(healthCheckDone(Ws, k, healthy, t))
    /\ UNCHANGED <<wf, runs, ticks, supVars, devVars, logVars, hookVars>>

HcNext ==
    \/ \E id \in ClientIds, hc \in BOOLEAN : AddClient(id, hc)
    \/ \E id \in ClientIds, ts \in SUBSET Tools : Discover(id, ts)
    \/ \E id \in ClientIds, ok \in BOOLEAN : ConnectEnd(id, ok)
    \/ \E id \in ClientIds : RemoveClient(id)
    \/ \E id \in ClientIds : Tick(id)
    \/ \E k \in 1..Len(probes), healthy \in BOOLEAN, t \in Clock :
          ProbeEnd(k, healthy, t)

\* the client registry with its health checks, under its callers and peers
HcSpec == HcInit /\ [][HcNext]_allVars

(***************************************************************************)
(* An instance with autoRestart on whose command always exits with code 1: *)
(* the caller starts it once and then leaves it to the supervisor.         *)
(***************************************************************************)
LiveInit ==
    /\ LogIdle
    /\ HookIdle
    /\ DevIdle
    /\ config \in [autoRestart : {TRUE}, maxRestarts : 1..MaxLiveRestarts]
    /\ insertServer = [maxRestarts |-> config.maxRestarts]
    /\ registered = TRUE
    /\ status = "stopped"
    /\ restartCount = 0
    /\ process = 0
    /\ uptime = FALSE
    /\ lastLog = "none"
    /\ procs = <<>>
    /\ signals = <<>>
    /\ tasks = <<>>
    /\ emitted = <<>>
    /\ ret = NoRet
    /\ calls = 0
    /\ abnExits = 0
    /\ manualStop = FALSE
    /\ voided = FALSE
    /\ exhausted = FALSE
    /\ WfIdle

\* the caller's only request
FirstStart == calls = 0 /\ Start("ok")

\* the command fails: the child exits with code 1
CommandFails == \E p \in DOMAIN procs : ProcessExit(p, "1")

AutoRestartFires == \E i \in 1..Len(tasks) : AutoRestartTimer(i)

GraceFires == \E i \in 1..Len(tasks) : GraceElapsed(i)

\* the pause of restart() ends and the command is spawned again
DelayFires == \E i \in 1..Len(tasks) : RestartDelayElapsed(i, "ok")

LiveNext ==
    \/ FirstStart
    \/ CommandFails
    \/ AutoRestartFires
    \/ GraceFires
    \/ DelayFires

\* scheduled timers fire and spawned processes exit
Fairness ==
    /\ WF_allVars(FirstStart)
    /\ WF_allVars(CommandFails)
    /\ WF_allVars(AutoRestartFires)
    /\ WF_allVars(GraceFires)
    /\ WF_allVars(DelayFires)

LiveSpec == LiveInit /\ [][LiveNext]_allVars /\ Fairness


(***************************************************************************)
(* The supervisor's claims.                                                 *)
(***************************************************************************)
Range(seq) == {seq[i] : i \in 1..Len(seq)}

\* getStatus().maxRestarts
EffMax == OrDefault(config.maxRestarts)

AutoTimers(ts) == {i \in 1..Len(ts) : ts[i].kind = "auto"}

\* this step is the exit handler of an abnormal exit
AbnormalExitStep == emitted' = <<"exit">> /\ status' = "error"

\* this step spawned a child
SpawnStep == Live(procs') \ Live(procs) # {}

\* C2: manual stop is never followed by auto-restart.  Once a caller has
\* stopped a running instance, (a) the exit of the process the stop signalled
\* schedules no restart, and (b) no process is spawned by the auto-restart
\* chain; only a caller's start or restart spawns again.
C2_ManualStopNoAutoRestart ==
    [][manualStop =>
         /\ (/\ process # 0
             /\ procs[process].alive
             /\ procs[process].killed
             /\ process \notin Live(procs'))
            => Cardinality(AutoTimers(tasks')) <= Cardinality(AutoTimers(tasks))
         /\ SpawnStep => ret'.op # "auto"]_supVars

\* C3 as stated: with autoRestart = true, right after the maxRestarts-th
\* abnormal exit restartCount = maxRestarts, status = error and no restart is
\* scheduled.
C3_AfterMaxRestartsExits ==
    (config.autoRestart /\ emitted = <<"exit">> /\ status = "error"
        /\ abnExits = EffMax)
    => (restartCount = EffMax /\ AutoTimers(tasks) = {})

\* C3 amended: with autoRestart = true, an abnormal exit observed when
\* restartCount = maxRestarts leaves restartCount unchanged, sets status =
\* error and schedules no restart.
C3_ExhaustedExitSchedulesNothing ==
    [][(config.autoRestart /\ restartCount = EffMax /\ AbnormalExitStep)
       => /\ restartCount' = restartCount
          /\ status' = "error"
          /\ tasks' = [i \in 1..Len(tasks) |-> [tasks[i] EXCEPT !.target =
                          IF @ \in Live(procs') THEN @ ELSE 0]]]_supVars

\* an abnormal exit was just observed with the restarts used up
C3_Witness ==
    /\ config.autoRestart
    /\ emitted = <<"exit">>
    /\ status = "error"
    /\ restartCount = EffMax
    /\ abnExits = EffMax + 1

\* C4: an instance has at most one live OS child process, in every reachable
\* state.
C4_AtMostOneLiveProcess == Cardinality(Live(procs)) <= 1

\* C8: when a stop() ends its grace window and the process it signalled is
\* still alive, it sends that process the forceful signal.
C8_ForceKillWhenStillAlive ==
    (ret.target # 0 /\ "stopped" \in Range(emitted))
    => [pid |-> ret.target, sig |-> "SIGKILL", live |-> TRUE] \in Range(signals)

\* C9: stop() sends the forceful signal only to a process that has not
\* exited: kill('SIGKILL') is never invoked on the handle of a process whose
\* exit has been observed.
C9_NoForceKillOnExited ==
    \A k \in Range(signals) : k.sig = "SIGKILL" => k.live

\* C10: start() on a running instance fails with the already-running error
\* and changes nothing: no spawn, no signal, no event, the same status,
\* restartCount, handle, timers and log.
C10_StartOnRunningChangesNothing ==
    [][(registered /\ status = "running" /\ ret'.op = "start")
       => /\ ret'.res = "alreadyRunning"
          /\ emitted' = <<>>
          /\ signals' = <<>>
          /\ UNCHANGED <<status, restartCount, process, procs, uptime, lastLog,
                         tasks, registered>>]_supVars

\* a start() was just refused on a running instance with a live child
C10_Witness ==
    /\ ret = Ret("start", "alreadyRunning", 0)
    /\ status = "running"
    /\ process \in Live(procs)

(***************************************************************************)
(* The workflow engine's claims, under WfSpec.                              *)
(***************************************************************************)
\* the calls of executeWorkflow and executeDistributedWorkflow awaiting a step
StepCalls == {th \in Range(threads) : th.kind # "invoke"}

\* this step is a submission to executeDistributedWorkflow
DistributedSubmitted == runs' = runs + 1 /\ wfRet'.op = "distributed"

\* this step is a direct call of invokeToolOnClient
ToolInvoked == runs' = runs + 1 /\ wfRet'.op = "invoke"

\* C1: in executeWorkflow and executeDistributedWorkflow, once the result of
\* step i has success = false, no step at an index j > i is invoked, the
\* execution does not complete, and a failed execution records failedStep = i.
C1_FailingStepHalts ==
    \A e \in 1..Len(execs) : \A r \in Range(execs[e].results) :
        ~r.success =>
            /\ \A th \in StepCalls : th.exec = e => th.i <= r.stepIndex
            /\ execs[e].status # "completed"
            /\ execs[e].status = "failed" => execs[e].failedStep = r.stepIndex

\* the peers the steps of the submitted workflow refer to, by an explicit
\* clientId or through their tool name
ReferencedPeers == {StepClient(clients, wf[i]) : i \in 1..Len(wf)} \ {""}

IsConnected(id) == Lookup(clients, id) # 0 /\ clients[Lookup(clients, id)].connected

\* C5: a submission to executeDistributedWorkflow made while a peer that a
\* step refers to is not connected fails, issues no tool invocation to any
\* peer and changes no step's parameter map.
C5_PreflightRejects ==
    [][(DistributedSubmitted /\ \E id \in ReferencedPeers : ~IsConnected(id))
       => /\ wfRet'.res = "throw"
          /\ sent' = <<>>
          /\ threads' = threads
          /\ wf' = wf]_allVars

C5_Witness ==
    /\ wfRet.op = "distributed" /\ wfRet.res = "throw"
    /\ execs = <<>>
    /\ wf[1].clientId = "x" /\ IsConnected("x") /\ "ping" \in clients[Lookup(clients, "x")].tools
    /\ wf[2].clientId = "y" /\ ~IsConnected("y")

\* C6: invokeTool on a client that is not connected, or for a tool that is not
\* in the client's discovered tool set, fails with an error, issues no request
\* and emits neither toolInvoked nor toolError.
C6_InvokeFailsFast ==
    [][(/\ ToolInvoked
        /\ Lookup(clients, wfRet'.arg[1]) # 0
        /\ \/ ~IsConnected(wfRet'.arg[1])
           \/ wfRet'.arg[2] \notin clients[Lookup(clients, wfRet'.arg[1])].tools)
       => /\ wfRet'.res \in {"notConnected", "capability"}
          /\ sent' = <<>>
          /\ threads' = threads
          /\ mgrEvents' = <<>>]_allVars

C6_Witness ==
    /\ wfRet.op = "invoke" /\ wfRet.res = "capability" /\ wfRet.arg = <<"x", "ping">>
    /\ IsConnected("x")
    /\ sent = <<>>

\* the successful results of execution e whose data the step in flight of
\* call th is to receive: the result of a step A with an output label that the
\* step in flight depends on
Feeds(th) ==
    {r \in Range(execs[th.exec].results) :
        /\ r.success
        /\ th.steps[r.stepIndex + 1].outputTo # ""
        /\ th.steps[r.stepIndex + 1].name \in th.steps[th.i + 1].dependsOn}

DistributedCalls == {th \in Range(threads) : th.kind = "distributed"}

\* C7 as stated: whenever step A (outputTo = k, successful with data d) precedes
\* a step B that depends on A, B is invoked with parameters in which k = d.
C7_DependentGetsData ==
    \A th \in DistributedCalls : \A r \in Feeds(th) :
        th.steps[th.i + 1].parameters[th.steps[r.stepIndex + 1].outputTo] = r.data

\* r is the last of the results feeding the step in flight of th under its label
LastWriter(th, r) ==
    \A r2 \in Feeds(th) :
        th.steps[r2.stepIndex + 1].outputTo = th.steps[r.stepIndex + 1].outputTo
        => r2.stepIndex <= r.stepIndex

\* C7, amended: whenever step A (outputTo = k, successful with data d) precedes
\* a step B that depends on A, and no step between them that B also depends on
\* succeeded with the same outputTo, B is invoked with parameters in which
\* k = d; the keys no step wrote keep their submitted values.
C7_LastWriterWins ==
    \A th \in DistributedCalls :
        /\ \A r \in Feeds(th) :
              LastWriter(th, r) =>
                 th.steps[th.i + 1].parameters[th.steps[r.stepIndex + 1].outputTo] = r.data
        /\ \A k \in Keys :
              (\A r \in Feeds(th) : th.steps[r.stepIndex + 1].outputTo # k)
              => th.steps[th.i + 1].parameters[k] = wf[th.i + 1].parameters[k]

C7_Witness ==
    \E th \in DistributedCalls :
        /\ th.i = 2
        /\ th.steps[3].parameters["r"] = 42
        /\ \E r \in Feeds(th) : r.stepIndex = 0 /\ r.data = 42 /\ LastWriter(th, r)
        /\ \E r \in Range(execs[th.exec].results) : r.stepIndex = 1 /\ r.success

\* the places in the registry of the connected peers whose discovered tools
\* include the tool
EligiblePeers(tool) ==
    {i \in 1..Len(clients) : clients[i].connected /\ tool \in clients[i].tools}

EarliestEligible(tool) ==
    clients[CHOOSE i \in EligiblePeers(tool) : \A j \in EligiblePeers(tool) : i <= j].id

\* C11: a step with no explicit clientId is bound to the earliest-registered
\* peer that is connected and has discovered the step's tool; a peer that is
\* not connected is never selected.  Here: a distributed workflow whose steps
\* name no peer, submitted while such a peer exists, sends its first request
\* to that peer.
C11_ResolvesToConnectedPeer ==
    [][(/\ DistributedSubmitted
        /\ \A i \in 1..Len(wf) : wf[i].clientId = ""
        /\ EligiblePeers(wf[1].toolName) # {})
       => /\ Len(sent') = 1
          /\ sent'[1].client = EarliestEligible(wf[1].toolName)]_allVars

\* the execution objects getWorkflowStatus can return
Observable == {wfMap[id] : id \in DOMAIN wfMap}

Terminal(e) == execs[e].status \in {"completed", "failed"}

\* C12: an execution record observed through getWorkflowStatus only goes from
\* running to completed or from running to failed, and once it is completed
\* or failed its status and its results never change again.
C12_TerminalRecordsFrozen ==
    [][\A e \in Observable :
          /\ execs'[e].status # execs[e].status
                => /\ execs[e].status = "running"
                   /\ execs'[e].status \in {"completed", "failed"}
          /\ Terminal(e) => execs'[e].results = execs[e].results]_allVars

\* C13: a pending auto-restart is cancellable: once stop() or removeServer()
\* has been called while the exit handler's delayed restart was pending, that
\* restart is void and never spawns a process for the instance.
C13_StoppedInstanceNotRespawned ==
    [][(voided /\ SpawnStep) => ret'.op # "auto"]_allVars

\* C14: whenever stop() completes (the process went on the graceful signal, on
\* the forceful one, or there was none), status is stopped, getStatus reports
\* no process id, and that call has emitted exactly one stopped event.
C14_StopCompletes ==
    (ret.op = "stop" /\ ret.res = "ok")
        => /\ status = "stopped"
           /\ StatusPid(St) = 0
           /\ Cardinality({i \in 1..Len(emitted) : emitted[i] = "stopped"}) = 1

\* C15: once an exit with a nonzero code has been observed with restartCount =
\* maxRestarts, restartCount never exceeds maxRestarts and is never reset,
\* whatever start, stop and restart calls and process exits follow.
C15_CountFrozenAfterExhaustion ==
    exhausted => restartCount = EffMax

\* nothing is running and nothing is scheduled: the instance has given up
\* after N restarts
Quiescent ==
    /\ restartCount = EffMax
    /\ status = "error"
    /\ tasks = <<>>
    /\ Live(procs) = {}

\* C16: under fairness (timers fire, spawned processes exit) an instance with
\* autoRestart on and maxRestarts = N >= 1 whose command always exits with a
\* nonzero code eventually settles with restartCount = N, status = error and
\* no restart pending.
C16_SettlesAfterNRestarts == <>[]Quiescent

\* the scenario with N = 3 has settled
C16_Witness ==
    /\ config.maxRestarts = 3
    /\ config.autoRestart
    /\ exhausted
    /\ Quiescent

Count(seq, x) == Cardinality({i \in 1..Len(seq) : seq[i] = x})

\* what invokeTool and the events of the step say about the answer a to the
\* request made with correlationId corr
Reported(a, corr) ==
    /\ Len(toolResults') = 1
    /\ toolResults'[1].correlationId = corr
    /\ toolResults'[1].success = a.ok
    /\ IF a.ok
       THEN /\ toolResults'[1].data = a.data
            /\ Count(mgrEvents', "toolInvoked") = 1
            /\ Count(mgrEvents', "toolError") = 0
       ELSE /\ toolResults'[1].error
            /\ Count(mgrEvents', "toolError") = 1
            /\ Count(mgrEvents', "toolInvoked") = 0

\* the step is the answer a to the request of threads[t]: no caller's
\* request, threads[t] has left the pending calls, and the step is Response's
\* (the first three conjuncts follow from the last and spare its evaluation
\* on other steps)
Answered(t, a) ==
    /\ runs' = runs
    /\ Len(threads') >= Len(threads) - 1
    /\ SubSeq(threads', 1, Len(threads) - 1) = RemoveAt(threads, t)
    /\ Response(t, a)

\* C17: an invokeTool that passed its two checks never throws.  When the
\* peer's answer is an error or a timeout it returns success = false with an
\* error and the caller's correlationId, and one toolError event is emitted;
\* when the answer is a success it returns success = true with the data and
\* the caller's correlationId, and one toolInvoked event is emitted.  A direct
\* invocation ends with that result and not with a throw.
C17_InvokeToolReports ==
    [][\A t \in 1..Len(threads), a \in Answers :
          Answered(t, a)
             => /\ Reported(a, threads[t].corr)
                /\ threads[t].kind = "invoke"
                      => wfRet'.res = IF a.ok THEN "success" ELSE "failure"]_allVars

\* a request made with a correlationId has just been answered with an error
C17_Witness ==
    /\ Len(toolResults) = 1
    /\ ~toolResults[1].success
    /\ toolResults[1].correlationId # <<>>
    /\ Count(mgrEvents, "toolError") = 1

(***************************************************************************)
(* The health checks' claims.                                               *)
(***************************************************************************)
\* C18: for a client registered with a health-check interval the periodic
\* task runs from registration whether or not connect succeeded, and every
\* tick, healthy or not, emits exactly one healthCheck event and records that
\* tick's timestamp as lastHealthCheck.  Here: when the probe of a tick of a
\* registered client settles, one event is emitted and the client's
\* lastHealthCheck is the event's timestamp.
C18_EveryTickRecorded ==
    [][\A k \in 1..Len(probes) :
          (probes' = RemoveAt(probes, k) /\ ~probes[k].orphan)
             => /\ Len(hcEvents') = 1
                /\ hcEvents'[1].clientId = probes[k].id
                /\ clients'[Lookup(clients', probes[k].id)].lastHealthCheck
                      = hcEvents'[1].timestamp]_allVars

\* C19: after removeClient(id) has returned the client is not registered, its
\* timer is cancelled, and no healthCheck event for it is emitted any more,
\* not even by a probe that was in flight at the removal.  Here: every
\* healthCheck event is for a client the registry holds.
C19_NoHealthCheckAfterRemoval ==
    \A i \in 1..Len(hcEvents) : Lookup(clients, hcEvents[i].clientId) # 0

\* C20: when connect() fails at any stage (both health endpoints fail, or the
\* push socket does not open), addClient does not throw, the client stays
\* registered and not connected, and exactly one error event for it is
\* emitted.
C20_FailedConnectKeepsClient ==
    [][\A id \in ClientIds :
          (wfRet'.op = "addClient" /\ wfRet'.arg = <<id, "rejected">>)
             => /\ wfRet'.res = "ok"
                /\ Lookup(clients', id) # 0
                /\ ~clients'[Lookup(clients', id)].connected
                /\ Count(mgrEvents', "clientError") = 1
                /\ Count(mgrEvents', "clientConnected") = 0]_allVars

\* a connect() has just failed at the socket, after the discovery
C20_Witness ==
    /\ wfRet.op = "addClient"
    /\ wfRet.arg = <<"x", "rejected">>
    /\ Lookup(clients, "x") # 0
    /\ clients[Lookup(clients, "x")].tools # {}
    /\ ~clients[Lookup(clients, "x")].connected

(***************************************************************************)
(* More of the supervisor's claims.                                         *)
(***************************************************************************)
\* a start() has failed to spawn in this step: spawn threw, or start() ran
\* and the handle it got has no process behind it
SpawnFailedStep ==
    \/ ret'.res = "spawnError"
    \/ /\ Count(emitted', "started") = 1
       /\ process' # 0
       /\ ~procs'[process'].hasPid

\* C21: when start() fails to spawn, status becomes error, lastError is set,
\* an error event is emitted, start() leaves restartCount as it is (a
\* restart() has counted itself before it calls start()), and no automatic
\* retry is scheduled because of the failure.
C21_SpawnFailureReported ==
    [][SpawnFailedStep
       => /\ status' = "error"
          /\ StatusLastError([status |-> status', lastLog |-> lastLog']) # "none"
          /\ Count(emitted', "error") = 1
          /\ restartCount' = restartCount + (IF ret'.op = "start" THEN 0 ELSE 1)
          /\ Cardinality(AutoTimers(tasks')) <= Cardinality(AutoTimers(tasks))]_allVars

\* a start() of an instance with autoRestart on has just failed to spawn
\* (the child could not be executed)
C21_Witness ==
    /\ config.autoRestart
    /\ ret = Ret("start", "ok", 0)
    /\ process # 0
    /\ ~procs[process].hasPid
    /\ status = "error"
    /\ emitted = <<"started", "error">>

\* a stop() is in its grace wait or a restart() in its stop or its pause
InFlight == \E i \in 1..Len(tasks) : tasks[i].kind \in {"grace", "delay"}

\* C22: operations on one instance are serialized: a start request that
\* arrives while a stop or a restart of the instance is still in flight fails
\* fast and spawns nothing.
C22_StartDuringOperationFailsFast ==
    [][(registered /\ InFlight /\ ret'.op = "start")
       => /\ ret'.res = "alreadyRunning"
          /\ ~SpawnStep]_allVars

(***************************************************************************)
(* More of the engine's claims.                                             *)
(***************************************************************************)
\* a call of executeWorkflow or executeDistributedWorkflow has thrown out of
\* its step loop in this step: at its first step, or at a later one when the
\* answer to the step before came
StepThrew ==
    /\ wfRet'.op \in {"workflow", "distributed"}
    /\ wfRet'.res = "throw"
    /\ Len(execs') > Len(execs) \/ Len(threads') < Len(threads)

\* C23: a workflow failure is reported through the execution's record: when
\* a step fails during executeWorkflow or executeDistributedWorkflow,
\* getWorkflowStatus(id) returns a record with status failed, the index of
\* the failing step and a failure reason.
C23_FailureInSnapshot ==
    [][StepThrew
       => /\ wfRet'.id \in DOMAIN wfMap'
          /\ execs'[wfMap'[wfRet'.id]].status = "failed"
          /\ execs'[wfMap'[wfRet'.id]].failedStep # -1
          /\ execs'[wfMap'[wfRet'.id]].error # "none"]_allVars

\* C24: every execution gets an id distinct from those of all other
\* executions, so that two workflows submitted within the same clock tick
\* have separate records: each execution object is the one the map holds
\* under its id.
C24_DistinctExecutionIds ==
    \A e \in 1..Len(execs) :
        /\ execs[e].id \in DOMAIN wfMap
        /\ wfMap[execs[e].id] = e

\* the step calls in flight of the execution e
InFlightOf(e) == {t \in 1..Len(threads) : threads[t].kind # "invoke" /\ threads[t].exec = e}

\* C25: within one execution the tools are invoked in the array order of the
\* steps, each step at most once, and step N+1 is invoked only after the
\* result of step N has been received: the results held are those of steps
\* 0, 1, 2, ... in that order, at most one step is in flight, and it is the
\* step after the last result.
C25_StepsInOrder ==
    \A e \in 1..Len(execs) :
        /\ \A k \in 1..Len(execs[e].results) : execs[e].results[k].stepIndex = k - 1
        /\ Cardinality(InFlightOf(e)) <= 1
        /\ \A t \in InFlightOf(e) :
              /\ threads[t].i = Len(execs[e].results)
              /\ threads[t].i < Len(threads[t].steps)

\* the second step of an execution is in flight, the first has its result
C25_Witness ==
    \E e \in 1..Len(execs) :
        /\ Len(execs[e].results) = 1
        /\ \E t \in InFlightOf(e) : threads[t].i = 1

\* every step of the execution e has its result and all of them succeeded
AllStepsSucceeded(e) ==
    /\ Len(execs[e].results) = Len(wf)
    /\ \A k \in 1..Len(execs[e].results) : execs[e].results[k].success

\* C26: assuming every invokeTool call returns, every submitted execution
\* reaches a terminal status, and that status is completed if and only if
\* every step's result had success = true.  Here, the second half: a terminal
\* execution is completed exactly when all its steps succeeded.
C26_CompletedIffAllSucceeded ==
    \A e \in 1..Len(execs) :
        Terminal(e) => (execs[e].status = "completed" <=> AllStepsSucceeded(e))

(***************************************************************************)
(* The REST layer: one action per request handler.  Every await of a       *)
(* handler is on a MemStorage promise that is already settled, so a        *)
(* handler runs to its response before the next request is taken up.       *)
(***************************************************************************)
DevInit ==
    /\ LogIdle
    /\ HookIdle
    /\ DevIdle
    /\ SupIdle
    /\ WfIdle

\* POST /api/devices
CreateEdgeDevice(d, st) ==
    /\ edgeDevices' = createEdgeDevice(edgeDevices, d, st)
    /\ deletedOk' = deletedOk \ {d}
    /\ httpRes' = HttpRes("createDevice", 201, d)
    /\ UNCHANGED <<servers, uuids, managed, supVars, wfVars, logVars, hookVars>>

\* POST /api/devices/:id/heartbeat; an unknown id is answered with success
Heartbeat(d) ==
    /\ IF d \in DOMAIN edgeDevices /\ edgeDevices[d].blocked
       THEN /\ httpRes' = HttpRes("heartbeat", 403, d)
            /\ UNCHANGED edgeDevices
       ELSE /\ edgeDevices' = updateEdgeDevice(edgeDevices, d, [status |-> "online"])
            /\ httpRes' = HttpRes("heartbeat", 200, d)
    /\ UNCHANGED <<servers, uuids, deletedOk, managed, supVars, wfVars, logVars, hookVars>>

\* POST /api/devices/:id/block
BlockDevice(d) ==
    /\ IF d \notin DOMAIN edgeDevices
       THEN /\ httpRes' = HttpRes("blockDevice", 404, d)
            /\ UNCHANGED edgeDevices
       ELSE /\ edgeDevices' = updateEdgeDevice(edgeDevices, d,
                                  [blocked |-> TRUE, status |-> "blocked"])
            /\ httpRes' = HttpRes("blockDevice", 200, d)
    /\ UNCHANGED <<servers, uuids, deletedOk, managed, supVars, wfVars, logVars, hookVars>>

\* POST /api/devices/:id/unblock
UnblockDevice(d) ==
    /\ IF d \notin DOMAIN edgeDevices
       THEN /\ httpRes' = HttpRes("unblockDevice", 404, d)
            /\ UNCHANGED edgeDevices
       ELSE /\ edgeDevices' = updateEdgeDevice(edgeDevices, d,
                                  [blocked |-> FALSE, status |-> "offline"])
            /\ httpRes' = HttpRes("unblockDevice", 200, d)
    /\ UNCHANGED <<servers, uuids, deletedOk, managed, supVars, wfVars, logVars, hookVars>>

\* POST /api/devices/register-tunnel
RegisterTunnel(tunnelId) ==
    /\ edgeDevices' = IF tunnelId \notin DOMAIN edgeDevices
                      THEN createEdgeDevice(edgeDevices, tunnelId, "online")
                      ELSE updateEdgeDevice(edgeDevices, tunnelId, [status |-> "online"])
    /\ deletedOk' = deletedOk \ {tunnelId}
    /\ httpRes' = HttpRes("registerTunnel", 200, tunnelId)
    /\ UNCHANGED <<servers, uuids, managed, supVars, wfVars, logVars, hookVars>>

\* the middleware for requests that carry Cloudflare headers: a tunnel id
\* that is not stored is registered; the request itself goes on unanswered
\* here
DetectTunnel(tunnelId) ==
    /\ tunnelId \notin DOMAIN edgeDevices
    /\ edgeDevices' = createEdgeDevice(edgeDevices, tunnelId, "online")
    /\ deletedOk' = deletedOk \ {tunnelId}
    /\ httpRes' = HttpRes("none", 0, "none")
    /\ UNCHANGED <<servers, uuids, managed, supVars, wfVars, logVars, hookVars>>

\* POST /api/servers: the body is validated and stored; the device it names
\* is not looked up
CreateServer(d, st, stamp) ==
    /\ uuids < MaxServers
    /\ uuids' = uuids + 1
    /\ servers' = createServer(servers, uuids', d, st)
    /\ managed' = managerCreateServer(managed, d, stamp)
    /\ httpRes' = HttpRes("createServer", 201, d)
    /\ UNCHANGED <<edgeDevices, deletedOk, supVars, wfVars, logVars, hookVars>>

\* POST /api/servers/:id/start
StartServer(id) ==
    /\ IF getServer(servers, id) = {}
       THEN /\ httpRes' = HttpRes("startServer", 404, "none")
            /\ UNCHANGED servers
       ELSE /\ servers' = updateServer(servers, id, "running")
            /\ httpRes' = HttpRes("startServer", 200, "none")
    /\ UNCHANGED <<edgeDevices, uuids, deletedOk, managed, supVars, wfVars, logVars, hookVars>>

\* DELETE /api/servers/:id
DeleteServer(id) ==
    /\ IF getServer(servers, id) = {}
       THEN /\ httpRes' = HttpRes("deleteServer", 404, "none")
            /\ UNCHANGED <<servers, managed>>
       ELSE /\ servers' = deleteServer(servers, id)
            /\ managed' = removeManaged(managed, getServer(servers, id))
            /\ httpRes' = HttpRes("deleteServer", 200, "none")
    /\ UNCHANGED <<edgeDevices, uuids, deletedOk, supVars, wfVars, logVars, hookVars>>

\* DELETE /api/devices/:id
DeleteDevice(d) ==
    /\ IF d \notin DOMAIN edgeDevices
       THEN /\ httpRes' = HttpRes("deleteDevice", 404, d)
            /\ UNCHANGED <<edgeDevices, servers, deletedOk, managed>>
       ELSE /\ servers' = removeServers(servers, getServersByDevice(servers, d))
            /\ managed' = removeManaged(managed, getServersByDevice(servers, d))
            /\ edgeDevices' = deleteEdgeDevice(edgeDevices, d)
            /\ deletedOk' = deletedOk \cup {d}
            /\ httpRes' = HttpRes("deleteDevice", 200, d)
    /\ UNCHANGED <<uuids, supVars, wfVars, logVars, hookVars>>

DevNext ==
    \/ \E d \in DeviceIds, st \in {"online", "offline"} : CreateEdgeDevice(d, st)
    \/ \E d \in DeviceIds : Heartbeat(d)
    \/ \E d \in DeviceIds : BlockDevice(d)
    \/ \E d \in DeviceIds : UnblockDevice(d)
    \/ \E d \in DeviceIds : RegisterTunnel(d)
    \/ \E d \in DeviceIds : DetectTunnel(d)
    \/ \E d \in DeviceIds, st \in {"stopped", "running"}, stamp \in NameStamps :
          CreateServer(d, st, stamp)
    \/ \E id \in 1..MaxServers : StartServer(id)
    \/ \E id \in 1..MaxServers : DeleteServer(id)
    \/ \E d \in DeviceIds : DeleteDevice(d)

DevSpec == DevInit /\ [][DevNext]_allVars

\* C27: once DELETE /api/devices/:id has been answered with success, storage
\* holds no server with that deviceId, whatever server-creation requests
\* for the device are handled around the deletion.
C27_NoServerOfDeletedDevice ==
    \A d \in deletedOk : getServersByDevice(servers, d) = {}

\* getWorkflowStatus returns what the map holds under the id: the execution
\* object itself (its place in execs), or 0 for undefined
getWorkflowStatus(id) == IF id \in DOMAIN wfMap THEN wfMap[id] ELSE 0

\* C28: a value obtained from getWorkflowStatus does not change afterwards:
\* whatever the call returns now reads the same after every later step of
\* the engine.
C28_StatusIsSnapshot ==
    [][\A id \in DOMAIN wfMap :
          LET v == getWorkflowStatus(id)
          IN execs'[v] = execs[v]]_allVars

(***************************************************************************)
(* The output of a running child.  A text is a sequence of characters; an  *)
(* entry is kept as its level tag and its message, the timestamp that      *)
(* addLog puts in front is left out.                                       *)
(***************************************************************************)

\* the most 'data' events a run is followed through
MaxOutputs == 3

\* the capacity of the log buffer
LOG_CAPACITY == 1000

Whitespace == {" "}

\* the texts a 'data' event carries
Chunks == {<<"a">>, <<" ">>, <<" ", "a">>, <<"a", " ">>, <<"a", "b">>}

\* String.prototype.trim
RECURSIVE trimStart(_)
trimStart(s) ==
    IF s # <<>> /\ Head(s) \in Whitespace THEN trimStart(Tail(s)) ELSE s

RECURSIVE trimEnd(_)
trimEnd(s) ==
    IF s # <<>> /\ s[Len(s)] \in Whitespace
    THEN trimEnd(SubSeq(s, 1, Len(s) - 1)) ELSE s

trim(s) == trimEnd(trimStart(s))

toUpperCase(level) ==
    CASE level = "info" -> "INFO"
      [] level = "warn" -> "WARN"
      [] level = "error" -> "ERROR"

LogEntry(level, message) == [level |-> toUpperCase(level), message |-> message]

LogEvent(log, level) == [log |-> log, level |-> level]

\* the buffer after addLog: the entry is pushed, and past the capacity only
\* the last LOG_CAPACITY entries are kept
addLogEntry_KeepOldest(buf, level, message) ==
    LET pushed == Append(buf, LogEntry(level, message))
    IN IF Len(pushed) > LOG_CAPACITY
       THEN SubSeq(pushed, 1, LOG_CAPACITY)
       ELSE pushed

addLogEntry(buf, level, message) ==
    LET pushed == Append(buf, LogEntry(level, message))
    IN IF Len(pushed) > LOG_CAPACITY
       THEN SubSeq(pushed, Len(pushed) - LOG_CAPACITY + 1, Len(pushed))
       ELSE pushed

\* the buffer of an instance whose start() succeeded and whose child has
\* since written n chunks "a" to stdout
Filled(n) ==
    [k \in 1..(n + 1) |-> IF k = 1 THEN LogEntry("info", <<"started">>)
                                   ELSE LogEntry("info", <<"a">>)]

LogInit ==
    /\ \E n \in {0, LOG_CAPACITY - 2, LOG_CAPACITY - 1} :
          /\ logs = Filled(n)
          /\ appended = Filled(n)
    /\ logEvents = <<>>
    /\ lastData = Data("none", <<>>)
    /\ outputs = 0
    /\ SupIdle
    /\ WfIdle
    /\ DevIdle
    /\ HookIdle

\* process.stdout 'data'
Stdout(data) ==
    /\ outputs < MaxOutputs
    /\ outputs' = outputs + 1
    /\ LET log == trim(data)
       IN /\ logs' = addLogEntry(logs, "info", log)
          /\ appended' = Append(appended, LogEntry("info", log))
          /\ logEvents' = <<LogEvent(log, "info")>>
    /\ lastData' = Data("stdout", data)
    /\ UNCHANGED <<supVars, wfVars, devVars, hookVars>>

\* process.stderr 'data'
Stderr(data) ==
    /\ outputs < MaxOutputs
    /\ outputs' = outputs + 1
    /\ LET log == trim(data)
       IN /\ logs' = addLogEntry(logs, "error", log)
          /\ appended' = Append(appended, LogEntry("error", log))
          /\ logEvents' = <<LogEvent(log, "error")>>
    /\ lastData' = Data("stderr", data)
    /\ UNCHANGED <<supVars, wfVars, devVars, hookVars>>

LogNext ==
    \/ \E data \in Chunks : Stdout(data)
    \/ \E data \in Chunks : Stderr(data)

LogSpec == LogInit /\ [][LogNext]_allVars

MostRecent(s, n) == SubSeq(s, Len(s) - n + 1, Len(s))

StreamLevel(stream) == IF stream = "stdout" THEN "info" ELSE "error"

\* C29: after any sequence of output the log buffer holds at most 1000
\* entries, and they are the most recently appended ones in arrival order;
\* what arrived on stdout is forwarded as one log event tagged info and what
\* arrived on stderr as one log event tagged error.
C29_BufferKeepsMostRecent ==
    /\ Len(logs) <= LOG_CAPACITY
    /\ logs = MostRecent(appended, IF Len(appended) < LOG_CAPACITY
                                   THEN Len(appended) ELSE LOG_CAPACITY)
    /\ lastData.stream # "none"
       => logEvents = <<LogEvent(trim(lastData.text), StreamLevel(lastData.stream))>>

C29_Witness ==
    /\ Len(appended) = LOG_CAPACITY + 2
    /\ Len(logs) = LOG_CAPACITY
    /\ lastData = Data("stderr", <<" ", "a">>)
    /\ logs[LOG_CAPACITY - 1].level = "INFO"

\* a call of addClient has run up to its throw or its await of connect()
AddClientCalled == wfRet'.op = "addClient" /\ wfRet'.res \in {"exists", "pending"}

\* C30: addClient with a registered id is rejected and changes nothing: the
\* registered clients with their connection state and timers, the probes in
\* flight and the forwarded events are as before; a client is only ever
\* created under an id that was not registered.
C30_DuplicateAddRejected ==
    [][AddClientCalled
       => IF wfRet'.res = "exists"
          THEN /\ clients' = clients
               /\ probes' = probes
               /\ mgrEvents' = <<>>
               /\ hcEvents' = <<>>
          ELSE /\ Len(clients') = Len(clients) + 1
               /\ SubSeq(clients', 1, Len(clients)) = clients
               /\ Lookup(clients, clients'[Len(clients')].id) = 0]_allVars

C30_Witness ==
    /\ wfRet.op = "addClient"
    /\ wfRet.res = "exists"
    /\ \E c \in 1..Len(clients) : clients[c].connected /\ clients[c].timer

\* the processes whose exit handler ran in this step although the instance has
\* since spawned another process that is still running
SupersededExits ==
    {p \in Live(procs) \ Live(procs') :
        /\ Count(emitted', "exit") = 1
        /\ process # 0
        /\ process # p
        /\ procs[process].alive}

\* C31: once a new process has been spawned for the instance, the exit of the
\* previous process changes neither status nor uptime and schedules no
\* auto-restart.
C31_SupersededExitIgnored ==
    [][SupersededExits # {}
       => /\ status' = status
          /\ uptime' = uptime
          /\ Cardinality(AutoTimers(tasks')) <= Cardinality(AutoTimers(tasks))]_allVars

\* the distributed call threads[t] got the result of its step in this step
\* and went on to the next one, which is now the last thread
Continues(t) ==
    /\ Len(toolResults') = 1
    /\ threads[t].kind = "distributed"
    /\ Len(threads') = Len(threads)
    /\ threads'[Len(threads')].kind = "distributed"
    /\ threads'[Len(threads')].exec = threads[t].exec
    /\ threads'[Len(threads')].i = threads[t].i + 1
    /\ threads[t].corr = toolResults'[1].correlationId
    /\ threads' = Append(RemoveAt(threads, t), threads'[Len(threads')])

\* step j receives the output of step i (both 1-based) under key k
Receives(steps, i, j, k) ==
    /\ steps[i].outputTo # ""
    /\ k = steps[i].outputTo
    /\ j > i
    /\ steps[i].name \in steps[j].dependsOn

\* C32: the propagation after step i writes the result's data under step i's
\* outputTo into the later steps whose dependsOn holds step i's name, and
\* only if the result succeeded and outputTo is set; every other key and
\* every other step, and every other field of a step, is as before.
C32_PropagationFrame ==
    [][\A t \in 1..Len(threads) :
          Continues(t)
          => LET old == threads[t].steps
                 new == threads'[Len(threads')].steps
                 r == toolResults'[1]
                 i == threads[t].i + 1
             IN /\ Len(new) = Len(old)
                /\ \A j \in 1..Len(old) :
                      /\ new[j] = [old[j] EXCEPT !.parameters = new[j].parameters]
                      /\ \A k \in Keys :
                            new[j].parameters[k] =
                               IF r.success /\ Receives(old, i, j, k)
                               THEN r.data
                               ELSE old[j].parameters[k]]_allVars

C32_Witness ==
    \E t \in 1..Len(threads) :
       /\ threads[t].kind = "distributed"
       /\ threads[t].i = 1
       /\ Len(threads[t].steps) = 3
       /\ threads[t].steps[3].parameters["r"] \in DataVals
       /\ threads[t].steps[2].parameters["r"] = 0
       /\ threads[t].steps[3].parameters["q"] = 1

\* C33: an instance configured with maxRestarts = 0 is never auto-restarted:
\* no step schedules a restart for it, and an abnormal exit leaves it in
\* status error with restartCount 0.
C33_ZeroMaxRestartsNeverRestarts ==
    [][insertServer.maxRestarts = 0
       => /\ Cardinality(AutoTimers(tasks')) <= Cardinality(AutoTimers(tasks))
          /\ AbnormalExitStep => restartCount' = 0]_allVars

\* C34: a process that exits with code 0 leaves the instance in status
\* stopped, schedules no restart and leaves restartCount as it was, whatever
\* autoRestart and maxRestarts are.
C34_CleanExitStops ==
    [][\A p \in DOMAIN procs :
          ProcessExit(p, "0")
          => /\ status' = "stopped"
             /\ Cardinality(AutoTimers(tasks')) <= Cardinality(AutoTimers(tasks))
             /\ restartCount' = restartCount]_allVars

C34_Witness ==
    /\ emitted = <<"exit">>
    /\ status = "stopped"
    /\ config.autoRestart
    /\ restartCount < EffMax
    /\ AutoTimers(tasks) = {}
    /\ Live(procs) = {}

\* step j of steps names no peer and no registered peer advertises its tool
Deferred(steps, j) ==
    /\ steps[j].clientId = ""
    /\ findSuitableClientForTool(clients, steps[j].toolName) = ""

\* this step is a call of executeDistributedWorkflow
DistributedSubmission == runs' = runs + 1 /\ wfRet'.op = "distributed"

\* the distributed call threads[t] got the result of its step in this step
AnsweredDistributed(t) ==
    /\ Len(toolResults') = 1
    /\ threads[t].kind = "distributed"
    /\ threads[t].corr = toolResults'[1].correlationId
    /\ \/ threads' = RemoveAt(threads, t)
       \/ /\ Len(threads') = Len(threads)
          /\ threads' = Append(RemoveAt(threads, t), threads'[Len(threads')])

\* the call ends here in failure: it rejects, the record under its id is
\* failed, and no request goes out
FailsHere(id) ==
    /\ wfRet' = WfRet("distributed", "throw", id)
    /\ sent' = <<>>
    /\ id \in DOMAIN wfMap'
    /\ execs'[wfMap'[id]].status = "failed"

\* C35: a step with no clientId whose tool no registered peer advertises does
\* not fail the pre-flight of executeDistributedWorkflow; the steps before it
\* are invoked in array order, and the call fails when it reaches that step,
\* without a request for it or for any later step.
C35_UnresolvableStepFailsWhenReached ==
    [][/\ (/\ DistributedSubmission
           /\ \A j \in 1..Len(wf) :
                 \/ Deferred(wf, j)
                 \/ IsConnected(StepClient(clients, wf[j])))
          => /\ Len(execs') = Len(execs) + 1
             /\ Deferred(wf, 1)
                => FailsHere(wfRet'.id) /\ Len(threads') = Len(threads)
       /\ \A t \in 1..Len(threads) :
             (/\ AnsweredDistributed(t)
              /\ threads[t].i + 2 <= Len(threads[t].steps)
              /\ Deferred(threads[t].steps, threads[t].i + 2))
             => /\ FailsHere(threads[t].id)
                /\ threads' = RemoveAt(threads, t)
                /\ Len(execs'[threads[t].exec].results) = threads[t].i + 1
                /\ \A k \in 1..(threads[t].i + 1) :
                      execs'[threads[t].exec].results[k].stepIndex = k - 1]_allVars

C35_Witness ==
    /\ wf \in DeferredWorkflows
    /\ wfRet.op = "distributed"
    /\ wfRet.res = "throw"
    /\ \E e \in 1..Len(execs) :
          /\ execs[e].kind = "distributed"
          /\ execs[e].status = "failed"
          /\ execs[e].error = "noSuitableClient"
          /\ Len(execs[e].results) = 1
          /\ InFlightOf(e) = {}

\* this step belongs to a health check: a timer fired or a probe settled
HealthStep == ticks' # ticks \/ hcEvents' # <<>>

\* C36: the health check never changes a client's connection state, and a
\* connected client stays connected, and so keeps passing the connection
\* guard of invokeTool and the pre-flight test, for as long as it is
\* registered, whatever its health probes report.
C36_HealthCheckKeepsConnected ==
    [][/\ HealthStep
          => /\ Len(clients') = Len(clients)
             /\ \A c \in 1..Len(clients) :
                   clients'[c].connected = clients[c].connected
       /\ \A c \in 1..Len(clients) :
             (clients[c].connected /\ Lookup(clients', clients[c].id) # 0)
             => LET c1 == clients'[Lookup(clients', clients[c].id)]
                IN /\ c1.connected
                   /\ \A tool \in ToolNames : invokeGuard(c1, tool) # "notConnected"]_allVars

C36_Witness ==
    /\ ticks = MaxTicks
    /\ Len(hcEvents) = 1
    /\ ~hcEvents[1].healthy
    /\ Lookup(clients, hcEvents[1].clientId) # 0
    /\ clients[Lookup(clients, hcEvents[1].clientId)].connected

\* C37: a blocked device stays blocked until it is unblocked: while it is
\* stored, no request other than POST /api/devices/:id/unblock clears its
\* blocked flag or sets its status to online.
C37_BlockedUntilUnblocked ==
    [][\A d \in DOMAIN edgeDevices :
          (/\ edgeDevices[d].blocked
           /\ d \in DOMAIN edgeDevices'
           /\ httpRes' # HttpRes("unblockDevice", 200, d))
          => /\ edgeDevices'[d].blocked
             /\ edgeDevices'[d].status # "online"]_allVars

\* the records MemStorage.createServer stored: the demo servers were put into
\* the map by the constructor
CreatedThroughStorage == {s \in servers : s.id > Cardinality(DemoServers)}

\* C38: storage and the manager correspond: every server created through
\* storage.createServer is held by the manager under the same id, and the
\* manager holds no instance whose id has no storage record.
C38_StorageMatchesManager ==
    /\ \A s \in CreatedThroughStorage : Uuid(s.id) \in managed
    /\ \A m \in managed : \E s \in servers : Uuid(s.id) = m

(***************************************************************************)
(* The useWebSocket hook: its effect, the events of its sockets, its       *)
(* reconnect timers and disconnect().                                      *)
(***************************************************************************)

\* the most WebSocket objects a hook instance is followed through
MaxSockets == 3

HookInit ==
    /\ HookIdle
    /\ LogIdle
    /\ DevIdle
    /\ SupIdle
    /\ WfIdle

\* connect(): a new WebSocket, with the four handlers set on it
connect ==
    /\ Len(sockets) < MaxSockets
    /\ sockets' = Append(sockets, "CONNECTING")
    /\ ws' = Len(sockets) + 1

\* the effect runs on mount
Mount ==
    /\ ~mounted
    /\ ~disconnected
    /\ mounted' = TRUE
    /\ connect
    /\ UNCHANGED <<reconnectTimeoutRef, timers, handles, isConnectedRef, disconnected,
                   supVars, wfVars, devVars, logVars>>

\* onopen of socket s
SocketOpen(s) ==
    /\ s \in 1..Len(sockets)
    /\ sockets[s] = "CONNECTING"
    /\ sockets' = [sockets EXCEPT ![s] = "OPEN"]
    /\ isConnectedRef' = TRUE
    /\ UNCHANGED <<ws, reconnectTimeoutRef, timers, handles, mounted, disconnected,
                   supVars, wfVars, devVars, logVars>>

\* onclose of socket s: the connection failed, the peer or the network
\* closed it, or a close() of the hook has completed
SocketClose(s) ==
    /\ s \in 1..Len(sockets)
    /\ sockets[s] # "CLOSED"
    /\ sockets' = [sockets EXCEPT ![s] = "CLOSED"]
    /\ isConnectedRef' = FALSE
    /\ handles' = handles + 1
    /\ timers' = timers \cup {handles'}
    /\ reconnectTimeoutRef' = handles'
    /\ UNCHANGED <<ws, mounted, disconnected, supVars, wfVars, devVars, logVars>>

\* the reconnect timer h fires after its 3 s
ReconnectFires(h) ==
    /\ h \in timers
    /\ timers' = timers \ {h}
    /\ connect
    /\ UNCHANGED <<reconnectTimeoutRef, handles, isConnectedRef, mounted, disconnected,
                   supVars, wfVars, devVars, logVars>>

\* WebSocket.close()
close(state) == IF state \in {"CONNECTING", "OPEN"} THEN "CLOSING" ELSE state

\* disconnect(), called by the component or as the effect's cleanup
Disconnect(unmount) ==
    /\ mounted
    /\ mounted' = ~unmount
    /\ disconnected' = TRUE
    /\ timers' = timers \ {reconnectTimeoutRef}
    /\ sockets' = IF ws # 0 THEN [sockets EXCEPT ![ws] = close(@)] ELSE sockets
    /\ UNCHANGED <<ws, reconnectTimeoutRef, handles, isConnectedRef,
                   supVars, wfVars, devVars, logVars>>

\* the effect runs again because onMessage is a new function: its cleanup,
\* disconnect(), and then connect()
Rerender ==
    /\ mounted
    /\ Len(sockets) < MaxSockets
    /\ disconnected' = FALSE
    /\ timers' = timers \ {reconnectTimeoutRef}
    /\ sockets' = Append(IF ws # 0 THEN [sockets EXCEPT ![ws] = close(@)] ELSE sockets,
                         "CONNECTING")
    /\ ws' = Len(sockets) + 1
    /\ UNCHANGED <<reconnectTimeoutRef, handles, isConnectedRef, mounted,
                   supVars, wfVars, devVars, logVars>>

HookNext ==
    \/ Mount
    \/ Rerender
    \/ \E s \in 1..MaxSockets : SocketOpen(s)
    \/ \E s \in 1..MaxSockets : SocketClose(s)
    \/ \E h \in 1..MaxSockets : ReconnectFires(h)
    \/ \E unmount \in BOOLEAN : Disconnect(unmount)

HookSpec == HookInit /\ [][HookNext]_allVars

\* C39: after disconnect() has been called the hook instance opens no new
\* WebSocket: the close that disconnect causes schedules no reconnect, and a
\* reconnect that was pending is cancelled.
C39_NoConnectAfterDisconnect ==
    [][disconnected
       => /\ Len(sockets') = Len(sockets)
          /\ timers' \subseteq timers]_allVars

============================================================================
